---- MODULE Spec2Model ----
(***************************************************************************)
(* Model of the per-session rendering pipeline of maldoror.dev:            *)
(*   - TileProvider      (chunk cache, tile lookup, rotation hash)         *)
(*   - PredictionCache   (movement learning, speculative pre-rendering)    *)
(*   - GameSession       (render tick, teardown) and its WorkerManager     *)
(* Each subsystem has its own specification over the shared variables.     *)
(***************************************************************************)
EXTENDS Integers, Sequences, FiniteSets, TLC

VARIABLES
    \* ---- TileProvider (src/unnamed/part_007) ----
    now,             \* Date.now(), milliseconds
    maxChunks,       \* TileProvider.maxChunks
    chunkCache,      \* Map<string, ChunkData>, entries in insertion order
    recency,         \* history: the cached keys by true access order
    lastGet,         \* history: the last getTile call; its result if for probe's tile
    probe,           \* history: one remembered getTile call and its result
    lastEvict,       \* history: how many chunks the last insertion evicted
    \* ---- PredictionCache (src/unnamed/part_005) ----
    enabled,
    movementHistory,
    continueProbability,
    stopProbability,
    turnProbability,
    predictions,
    lastPred,        \* history: the last PredictionCache call and its result
    \* ---- GameSession / WorkerManager (worker-manager.ts) ----
    sessPc,          \* how far GameSession.start() has got
    destroyed,
    tickInterval,    \* TRUE while the setInterval timer is armed
    renderer,
    playerX,
    lastQueryX,
    tickCounter,
    cachedVisiblePlayers,
    ticks,           \* request ids that a suspended tick() is awaiting
    reloadState,
    workerReady,
    requestIdCounter,
    pendingRequests,
    workerInbox,     \* requests the worker received and has not answered
    streamLog,       \* history: what the last step wrote to the stream
    moveTimer,       \* TRUE while the 200 ms setTimeout of move() is armed
    inputPaused,
    screenPc,        \* how far openAvatarScreen / openBuildingScreen has got
    currentTickMs,
    intervalSetBy,   \* history: the code that armed the tick interval last
    toggles,         \* request ids that a suspended togglePlayerList() is awaiting
    players,         \* user ids in the session TileProvider's players map
    \* ---- brightness variants (src/unnamed/part_006) ----
    lastQuantize,    \* history: the last quantizeBrightness call and its result
    variants,        \* BrightnessVariantCache.cache: the keys it stores
    accessOrder,     \* BrightnessVariantCache.accessOrder
    maxSize,         \* BrightnessVariantCache.maxSize
    useOrder,        \* history: the stored keys by their last use
    lastVariant,     \* history: the last BrightnessVariantCache call
    \* ---- components (src/packages/render/src/components) ----
    state,           \* Component.state of every component
    isVisible,       \* Component.visible of every component
    rootComponents,  \* ComponentManager.rootComponents
    focusStack,      \* ComponentManager.focusStack, top last
    lastCall,        \* history: the last ComponentManager call
    \* ---- terrain and rendering (src/unnamed/part_005, part_007) ----
    lastTerrain,     \* history: the last getTileIdFromTerrain call
    lastScale,       \* history: the last scaleFrame call and its result
    pendingOverlays, \* ViewportRenderer.pendingOverlays
    lastRender,      \* history: the last renderToBuffer call and its result
    baseTiles,       \* BASE_TILES: the registered tile objects by id
    lastTile,        \* history: the last tile object getTile returned
    lastDiff,        \* history: the last frame encoded against its predecessor
    \* ---- hot reload (src/apps/ssh-world/src/server/worker-manager.ts) ----
    worker,          \* WorkerManager.worker: 0 for null, 1 for a process
    connectedSessions, \* WorkerManager.connectedSessions, as its set of values
    workerPlayers,   \* the sessions the current worker was sent player_connect
                     \* for and no player_disconnect since
    reloadPc,        \* how far hotReload() has got
    reloadLog,       \* history: the states notified by the last hotReload()
    \* ---- sprite loading (src/apps/ssh-world/src/server/worker-manager.ts) ----
    sprites,         \* TileProvider.sprites: what is stored for each player id
    loadingSprites,  \* GameSession.loadingSprites
    tickLoads,       \* the loads of batchLoadPlayerSprites in flight, by id
    reloadLoads,     \* the loads of handleSpriteReload in flight, by id
    lastSprite,      \* history: the last step of the sprite loading
    \* ---- worker processes (src/apps/ssh-world/src/server/worker-manager.ts) ----
    processes,       \* every forked process: "unborn", "starting", "ready",
                     \* "dying" (ended, its 'exit' event not yet emitted), "gone"
    workerPid,       \* the process WorkerManager.worker refers to, 0 for null
    awaitedPid,      \* the process whose spawnWorker() promise hotReload awaits
    restartTimers,   \* the armed 1 s timers of the 'exit' handler
    lastExit,        \* history: the last 'exit' event handled
    \* ---- what a render reads and what the terminal shows ----
    scene,           \* the other players, the animation tick, the render mode
    shownFrame,      \* the cell grid on the terminal
    lastServe,       \* history: the last lookup the session served
    \* ---- the grids of the brightness variants (src/unnamed/part_006) ----
    storedGrids,     \* BrightnessVariantCache.cache: the grid stored under each key
    lastGrid,        \* history: the last get with its grid and what it returned
    \* ---- BuildingScreen (src/unnamed/part_009) ----
    screenState,     \* BuildingScreen.state
    screenDestroyed, \* BuildingScreen.destroyed
    inputBuffer,     \* the length of BuildingScreen.inputBuffer
    isGenerating,
    spinnerInterval, \* TRUE while the spinner's setInterval is armed
    generation,      \* TRUE while a generateBuildingSprite call is in flight
    spinnerFrame,
    progressCurrent,
    lastWrite        \* history: the last write to the stream and who made it

tileVars == <<now, maxChunks, chunkCache, recency, lastGet, probe, lastEvict>>
predVars == <<enabled, movementHistory, continueProbability, stopProbability,
              turnProbability, predictions, lastPred>>
timerVars == <<moveTimer, inputPaused, screenPc, currentTickMs, intervalSetBy>>
viewVars == <<toggles, players>>
sessVars == <<sessPc, destroyed, tickInterval, renderer, playerX, lastQueryX,
              tickCounter, cachedVisiblePlayers, ticks, reloadState, workerReady,
              requestIdCounter, pendingRequests, workerInbox, streamLog, timerVars,
              viewVars>>
brightVars == <<lastQuantize, variants, accessOrder, maxSize, useOrder, lastVariant>>
compVars == <<state, isVisible, rootComponents, focusStack, lastCall>>
objVars == <<baseTiles, lastTile, lastDiff>>
drawVars == <<lastTerrain, lastScale, pendingOverlays, lastRender, objVars>>
reloadVars == <<worker, connectedSessions, workerPlayers, reloadPc, reloadLog>>
spriteVars == <<sprites, loadingSprites, tickLoads, reloadLoads, lastSprite>>
procVars == <<processes, workerPid, awaitedPid, restartTimers, lastExit>>
serveVars == <<scene, shownFrame, lastServe>>
gridVars == <<storedGrids, lastGrid>>
screenVars == <<screenState, screenDestroyed, inputBuffer, isGenerating,
                spinnerInterval, generation, spinnerFrame, progressCurrent,
                lastWrite>>
asyncVars == <<spriteVars, procVars, serveVars, gridVars, screenVars>>
uiVars == <<brightVars, compVars, drawVars, reloadVars, asyncVars>>
vars == <<tileVars, predVars, sessVars, uiVars>>

NoCall == [op |-> "none"]

(***************************************************************************)
(* Bounds of the model                                                     *)
(***************************************************************************)
MaxNow == 1
MaxChunkCap == 2
CHUNK_SIZE_TILES == 2

\* tile coordinates getTile is asked for: both signs, two chunks on each axis
XCoords == {-2, -1, 0, 1}
YCoords == {-1, 0}
ChunkXs == {x \div CHUNK_SIZE_TILES : x \in XCoords}
ChunkYs == {y \div CHUNK_SIZE_TILES : y \in YCoords}

\* tiles further out, where positionHash gives a rotation other than 0
FarTiles == {<<13, 12>>, <<14, 5>>, <<-14, -5>>, <<-27, -17>>}
TableXs == XCoords \cup {at[1] : at \in FarTiles}
TableYs == YCoords \cup {at[2] : at \in FarTiles}

(***************************************************************************)
(* 32-bit integer helpers (JavaScript ToInt32, >>, ^) on 16-bit halves     *)
(***************************************************************************)
Half == 2 ^ 16

RECURSIVE Xor16(_, _)
Xor16(a, b) ==
    IF a = 0 THEN b
    ELSE IF b = 0 THEN a
    ELSE (((a % 2) + (b % 2)) % 2) + 2 * Xor16(a \div 2, b \div 2)

\* signed 32-bit value of the two's complement halves hi, lo
Signed32(hi, lo) ==
    IF hi >= 32768 THEN (hi - Half) * Half + lo ELSE hi * Half + lo

\* a ^ b on signed 32-bit operands
Xor32(a, b) ==
    Signed32(Xor16((a \div Half) % Half, (b \div Half) % Half),
             Xor16(a % Half, b % Half))

\* ToInt32(x * mulA + y * mulB), the multipliers given as 16-bit halves
ToInt32Sum(x, aHi, aLo, y, bHi, bLo) ==
    LET loSum == x * aLo + y * bLo
        hiSum == x * aHi + y * bHi
        lo    == loSum % Half
        hi    == (hiSum + (loSum \div Half)) % Half
    IN Signed32(hi, lo)

(***************************************************************************)
(* positionHash and the rotation derived from it                           *)
(***************************************************************************)
\* the multipliers of the first line of positionHash, as 16-bit halves
HashMulX == 374761393
HashMulY == 668265263
HashMulXHi == HashMulX \div Half
HashMulXLo == HashMulX % Half
HashMulYHi == HashMulY \div Half
HashMulYLo == HashMulY % Half
\* |t| * 1274126177 < 2^53 iff |t| <= 7069314 ; < 2^54 iff |t| <= 14138629
ExactBelow == 7069314
EvenBelow == 14138629

\* hash ^ (hash >> 13) after the first line of positionHash
positionHashMix(x, y) ==
    LET hash == ToInt32Sum(x, HashMulXHi, HashMulXLo, y, HashMulYHi, HashMulYLo)
    IN Xor32(hash, hash \div 8192)

\* Math.abs(positionHash(x, y)) % 4.  The product t * 1274126177 is a double:
\* exact below 2^53, rounded to an even multiple of 2 (ties to a multiple of
\* 4) below 2^54, a multiple of 4 from there on; 1274126177 % 4 = 1.
Rotation(x, y) ==
    LET t    == positionHashMix(x, y)
        amod == IF t >= 0 THEN t % 4 ELSE (4 - (t % 4)) % 4
    IN IF t >= -ExactBelow /\ t <= ExactBelow THEN amod
       ELSE IF t >= -EvenBelow /\ t <= EvenBelow
            THEN (IF amod % 2 = 0 THEN amod ELSE 0)
       ELSE 0

\* Rotation over the coordinates of the model, computed once
RotationTable == [x \in TableXs |-> [y \in TableYs |-> Rotation(x, y)]]

(***************************************************************************)
(* Chunk generation                                                        *)
(***************************************************************************)
\* The world seed every session is constructed with (GameSession.worldSeed).
WorldSeed == 7

\* ValueNoise.sample in hundredths (0..99): a fixed function of the seed the
\* ValueNoise was constructed with and of the sample point.  channel 0 is the
\* elevation sample, channel 1 the moisture sample (offset by 1000).
NoiseSample(seed, channel, worldX, worldY) ==
    (seed * 13 + (worldX + 50) * 37 + (worldY + 50) * 59 + channel * 41) % 100

\* variant: the stone test comes first and takes the threshold itself
getTileIdFromTerrain_stoneFirst(elevation, moisture) ==
    IF elevation >= 75 THEN "stone"
    ELSE IF elevation < 30 THEN "water"
    ELSE IF elevation < 35 THEN "sand"
    ELSE IF moisture < 35 THEN "dirt"
    ELSE "grass"

\* getTileIdFromTerrain(elevation, moisture, _rand), both in hundredths
getTileIdFromTerrain(elevation, moisture) ==
    IF elevation < 30 THEN "water"
    ELSE IF elevation < 35 THEN "sand"
    ELSE IF elevation > 75 THEN "stone"
    ELSE IF moisture < 35 THEN "dirt"
    ELSE "grass"

LocalCoords == 0..(CHUNK_SIZE_TILES - 1)

\* the tiles array generateChunk(chunkX, chunkY) fills
generateTiles(chunkX, chunkY) ==
    [ly \in LocalCoords |-> [lx \in LocalCoords |->
        LET worldX == chunkX * CHUNK_SIZE_TILES + lx
            worldY == chunkY * CHUNK_SIZE_TILES + ly
        IN getTileIdFromTerrain(NoiseSample(WorldSeed, 0, worldX, worldY),
                                NoiseSample(WorldSeed, 1, worldX, worldY))]]

\* generateTiles over the chunks of the model, computed once
TilesTable ==
    [cx \in {x \div CHUNK_SIZE_TILES : x \in TableXs} |->
        [cy \in {y \div CHUNK_SIZE_TILES : y \in TableYs} |->
            generateTiles(cx, cy)]]

\* variant: the terrain also depends on when the chunk is generated
generateChunk_clockSeeded(chunkX, chunkY, t) ==
    [key |-> <<chunkX, chunkY>>,
     tiles |-> [ly \in LocalCoords |-> [lx \in LocalCoords |->
        getTileIdFromTerrain(
            NoiseSample(WorldSeed + t, 0, chunkX * CHUNK_SIZE_TILES + lx,
                        chunkY * CHUNK_SIZE_TILES + ly),
            NoiseSample(WorldSeed + t, 1, chunkX * CHUNK_SIZE_TILES + lx,
                        chunkY * CHUNK_SIZE_TILES + ly))]],
     accessedAt |-> t]

\* ChunkData produced by generateChunk(chunkX, chunkY) at clock reading t
generateChunk(chunkX, chunkY, t) ==
    [key |-> <<chunkX, chunkY>>, tiles |-> TilesTable[chunkX][chunkY],
     accessedAt |-> t]

\* base-tiles.js: the registered tiles and which of them are animated
RegisteredTiles == {"grass", "dirt", "sand", "water", "stone", "void"}
Animated(tileId) == tileId = "water"

(***************************************************************************)
(* Chunk cache: a Map kept as a sequence in insertion order                *)
(***************************************************************************)
CacheKeys(cache) == {cache[i].key : i \in 1..Len(cache)}

IndexOfKey(cache, key) == CHOOSE i \in 1..Len(cache) : cache[i].key = key

\* the subsequence of the entries whose index is in keep, order preserved
RECURSIVE KeepIndices(_, _, _)
KeepIndices(seq, keep, i) ==
    IF i > Len(seq) THEN <<>>
    ELSE (IF i \in keep THEN <<seq[i]>> ELSE <<>>) \o KeepIndices(seq, keep, i + 1)

\* entry i comes before entry j in entries.sort((a, b) => a.accessedAt -
\* b.accessedAt): Array.prototype.sort is stable
SortsBefore(cache, i, j) ==
    \/ cache[i].accessedAt < cache[j].accessedAt
    \/ cache[i].accessedAt = cache[j].accessedAt /\ i < j

\* variant: slices one entry short, entries.slice(0, length - maxChunks - 1)
EvictedIndices_oneShort(cache, cap) ==
    IF Len(cache) <= cap THEN {}
    ELSE {i \in 1..Len(cache) :
            Cardinality({j \in 1..Len(cache) : SortsBefore(cache, j, i)})
                < Len(cache) - cap - 1}

\* indices evictOldChunks deletes: the first (length - maxChunks) of the sort
EvictedIndices(cache, cap) ==
    IF Len(cache) <= cap THEN {}
    ELSE {i \in 1..Len(cache) :
            Cardinality({j \in 1..Len(cache) : SortsBefore(cache, j, i)})
                < Len(cache) - cap}

evictOldChunks(cache, cap) ==
    KeepIndices(cache, (1..Len(cache)) \ EvictedIndices(cache, cap), 1)

\* getChunk(chunkX, chunkY) at clock reading t: the cache afterwards
getChunkCache(cache, cap, chunkX, chunkY, t) ==
    LET key == <<chunkX, chunkY>>
    IN IF key \in CacheKeys(cache)
       THEN [cache EXCEPT ![IndexOfKey(cache, key)].accessedAt = t]
       ELSE evictOldChunks(Append(cache, generateChunk(chunkX, chunkY, t)), cap)

\* getChunk(chunkX, chunkY) at clock reading t: the chunk returned
getChunkResult(cache, chunkX, chunkY, t) ==
    LET key == <<chunkX, chunkY>>
    IN IF key \in CacheKeys(cache)
       THEN [cache[IndexOfKey(cache, key)] EXCEPT !.accessedAt = t]
       ELSE generateChunk(chunkX, chunkY, t)

\* Math.floor(tile / CHUNK_SIZE_TILES)
ChunkOf(tile) == tile \div CHUNK_SIZE_TILES
\* ((tile % CHUNK_SIZE_TILES) + CHUNK_SIZE_TILES) % CHUNK_SIZE_TILES, with
\* JavaScript's remainder taking the sign of the dividend
JsRem(a, b) == IF a >= 0 THEN a % b ELSE 0 - ((0 - a) % b)
LocalOf(tile) == JsRem(JsRem(tile, CHUNK_SIZE_TILES) + CHUNK_SIZE_TILES, CHUNK_SIZE_TILES)

\* what getTile(tileX, tileY) returns given the chunk getChunk handed back:
\* the tile id and the rotation applied to its pixel grid
getTileResult(chunk, tileX, tileY) ==
    LET tileId   == chunk.tiles[LocalOf(tileY)][LocalOf(tileX)]
        rotation == RotationTable[tileX][tileY]
    IN IF tileId \notin RegisteredTiles THEN [id |-> "void", rotation |-> 0]
       ELSE IF rotation = 0 \/ Animated(tileId) THEN [id |-> tileId, rotation |-> 0]
       ELSE [id |-> tileId, rotation |-> rotation]

(***************************************************************************)
(* TileProvider actions                                                    *)
(***************************************************************************)
\* true access order after key has been accessed (least recent first)
Touch(order, key) == SelectSeq(order, LAMBDA k : k # key) \o <<key>>

\* getTile(tileX, tileY); remember says whether the history variable probe
\* records this call
getTile(tileX, tileY, remember) ==
    LET chunkX   == ChunkOf(tileX)
        chunkY   == ChunkOf(tileY)
        after    == getChunkCache(chunkCache, maxChunks, chunkX, chunkY, now)
        chunk    == getChunkResult(chunkCache, chunkX, chunkY, now)
        result   == getTileResult(chunk, tileX, tileY)
        touched  == Touch(recency, <<chunkX, chunkY>>)
        evicted  == (CacheKeys(chunkCache) \cup {<<chunkX, chunkY>>}) \ CacheKeys(after)
    IN /\ chunkCache' = after
       /\ recency' = SelectSeq(touched, LAMBDA k : k \in CacheKeys(after))
       /\ probe' = IF remember
                   THEN [op |-> "getTile", x |-> tileX, y |-> tileY, result |-> result]
                   ELSE probe
       /\ lastGet' = IF probe'.op = "getTile" /\ probe'.x = tileX /\ probe'.y = tileY
                     THEN [op |-> "getTile", probed |-> TRUE, result |-> result,
                           remembered |-> remember]
                     ELSE [op |-> "getTile", probed |-> FALSE]
       /\ lastEvict' = IF <<chunkX, chunkY>> \in CacheKeys(chunkCache) THEN NoCall
                       ELSE [op |-> "insert", evicted |-> Cardinality(evicted),
                             over |-> Len(chunkCache) + 1 > maxChunks]
       /\ UNCHANGED <<now, maxChunks>>

GetTile ==
    /\ \E x \in XCoords, y \in YCoords :
          \E remember \in {probe.op = "none", FALSE} : getTile(x, y, remember)
    /\ UNCHANGED <<predVars, sessVars, uiVars>>

\* clearCache()
ClearCache ==
    /\ chunkCache # <<>>
    /\ chunkCache' = <<>>
    /\ recency' = <<>>
    /\ lastGet' = NoCall
    /\ lastEvict' = NoCall
    /\ UNCHANGED <<now, maxChunks, probe>>
    /\ UNCHANGED <<predVars, sessVars, uiVars>>

\* another session: new TileProvider({worldSeed, chunkCacheSize}) takes over
\* with its own empty cache; probe keeps what an earlier instance answered
NewTileProvider ==
    /\ probe.op # "none"
    /\ chunkCache # <<>>
    /\ \E cap \in 1..MaxChunkCap : maxChunks' = cap
    /\ chunkCache' = <<>>
    /\ recency' = <<>>
    /\ lastGet' = [op |-> "new"]
    /\ lastEvict' = NoCall
    /\ UNCHANGED <<now, probe>>
    /\ UNCHANGED <<predVars, sessVars, uiVars>>

\* the clock advances between calls (or does not: two calls in one millisecond)
ClockTick ==
    /\ now < MaxNow
    /\ now' = now + 1
    /\ UNCHANGED <<maxChunks, chunkCache, recency, lastGet, probe, lastEvict>>
    /\ UNCHANGED <<predVars, sessVars, uiVars>>

(***************************************************************************)
(* PredictionCache                                                         *)
(***************************************************************************)
Directions == {"up", "down", "left", "right"}

leftDirection(dir) ==
    CASE dir = "up" -> "left"
      [] dir = "down" -> "right"
      [] dir = "left" -> "down"
      [] dir = "right" -> "up"

rightDirection(dir) ==
    CASE dir = "up" -> "right"
      [] dir = "down" -> "left"
      [] dir = "left" -> "up"
      [] dir = "right" -> "down"

nextPosition(x, y, dir) ==
    CASE dir = "up" -> [x |-> x, y |-> y - 1]
      [] dir = "down" -> [x |-> x, y |-> y + 1]
      [] dir = "left" -> [x |-> x - 1, y |-> y]
      [] dir = "right" -> [x |-> x + 1, y |-> y]

maxHistory == 10

\* Weights are exact rationals with denominator ProbScale: 2520 is divisible by
\* every possible number of movement pairs (1..9), 1000 covers 0.3 and 0.45.
ProbScale == 2520 * 1000
DefaultContinue == (45 * ProbScale) \div 100
DefaultStop == (30 * ProbScale) \div 100
DefaultTurn == (25 * ProbScale) \div 100
\* alpha = AlphaTenths / 10
AlphaTenths == 3

\* variant: a step onto the next tile counts as continue whatever the direction
ClassifyPair_ignoresDirection(prev, curr) ==
    LET expected == nextPosition(prev.x, prev.y, prev.direction)
    IN IF curr.x = expected.x /\ curr.y = expected.y THEN "continue"
       ELSE IF curr.x = prev.x /\ curr.y = prev.y THEN "stop"
       ELSE "turn"

\* the class updateProbabilities puts the pair (prev, curr) in
ClassifyPair(prev, curr) ==
    LET expected == nextPosition(prev.x, prev.y, prev.direction)
    IN IF curr.x = expected.x /\ curr.y = expected.y /\ curr.direction = prev.direction
       THEN "continue"
       ELSE IF curr.x = prev.x /\ curr.y = prev.y THEN "stop"
       ELSE "turn"

\* number of consecutive pairs of history that updateProbabilities counts as kind
CountPairs(history, kind) ==
    Cardinality({i \in 2..Len(history) : ClassifyPair(history[i - 1], history[i]) = kind})

\* variant: the learning rate is 0.5
Blend_half(count, total, default) ==
    (5 * count * (ProbScale \div total)) \div 10 + (5 * default) \div 10

\* alpha * (count / total) + (1 - alpha) * default
Blend(count, total, default) ==
    (AlphaTenths * count * (ProbScale \div total)) \div 10
        + ((10 - AlphaTenths) * default) \div 10

\* the counters of updateProbabilities() after its loop over history
countMovements(history) ==
    [continues |-> CountPairs(history, "continue"),
     stops     |-> CountPairs(history, "stop"),
     turns     |-> CountPairs(history, "turn")]

\* variant: the turn weight is not recomputed
weightsFromCounts_staleTurn(counts, weights) ==
    LET total == counts.continues + counts.stops + counts.turns
    IN IF total > 0
       THEN [continue |-> Blend(counts.continues, total, DefaultContinue),
             stop |-> Blend(counts.stops, total, DefaultStop),
             turn |-> weights.turn]
       ELSE weights

\* the assignments at the end of updateProbabilities(), from its counters
weightsFromCounts(counts, weights) ==
    LET total == counts.continues + counts.stops + counts.turns
    IN IF total > 0
       THEN LET c == Blend(counts.continues, total, DefaultContinue)
                st == Blend(counts.stops, total, DefaultStop)
            IN [continue |-> c, stop |-> st, turn |-> ProbScale - c - st]
       ELSE weights

\* the three weights after updateProbabilities() ran on history
updateProbabilities(history, weights) ==
    IF Len(history) < 3 THEN weights
    ELSE weightsFromCounts(countMovements(history), weights)

Weights == [continue |-> continueProbability, stop |-> stopProbability,
            turn |-> turnProbability]

\* push, then shift while longer than maxHistory
RECURSIVE Trim(_)
Trim(history) == IF Len(history) > maxHistory THEN Trim(Tail(history)) ELSE history

\* MovementEntry without its timestamp, which no code reads
MoveInputs == { [x |-> 0, y |-> 0, direction |-> "down"],
                [x |-> 0, y |-> 1, direction |-> "down"],
                [x |-> 0, y |-> 1, direction |-> "left"] }

\* variant: clear() leaves the entries in place
clear_keeps(preds) == preds

\* clear(): this.predictions.clear()
clear(preds) == {}

Enable ==
    /\ enabled' = TRUE
    /\ lastPred' = [op |-> "enable"]
    /\ UNCHANGED <<movementHistory, continueProbability, stopProbability,
                   turnProbability, predictions>>
    /\ UNCHANGED <<tileVars, sessVars, uiVars>>

Disable ==
    /\ enabled' = FALSE
    /\ predictions' = clear(predictions)
    /\ lastPred' = [op |-> "disable"]
    /\ UNCHANGED <<movementHistory, continueProbability, stopProbability,
                   turnProbability>>
    /\ UNCHANGED <<tileVars, sessVars, uiVars>>

recordMovement(m) ==
    IF ~enabled
    THEN /\ lastPred' = [op |-> "recordMovement", stored |-> FALSE]
         /\ UNCHANGED <<enabled, movementHistory, continueProbability,
                        stopProbability, turnProbability, predictions>>
    ELSE \E history \in {Trim(Append(movementHistory, m))} :
         \E after \in {updateProbabilities(history, Weights)} :
            /\ movementHistory' = history
            /\ continueProbability' = after.continue
            /\ stopProbability' = after.stop
            /\ turnProbability' = after.turn
            /\ lastPred' = [op |-> "recordMovement", stored |-> TRUE,
                            counts |-> IF Len(history) < 3 THEN NoCall
                                       ELSE countMovements(history)]
            /\ UNCHANGED <<enabled, predictions>>

RecordMovement ==
    /\ \E m \in MoveInputs : recordMovement(m)
    /\ UNCHANGED <<tileVars, sessVars, uiVars>>

(***************************************************************************)
(* PredictionCache: speculative pre-rendering and lookup                   *)
(***************************************************************************)
FreshnessMs == 500
MaxPredNow == 1000
MaxPredX == 0
MaxPredY == 1
PredXs == 0..MaxPredX
PredYs == 0..MaxPredY
\* clock advances seen between two PredictionCache calls
ClockSteps == {FreshnessMs - 1, FreshnessMs}

\* predictionKey(type, x, y, dir): `${type}:${x},${y}:${dir}`
predictionKey(type, x, y, dir) == <<type, x, y, dir>>

\* Map.set(key, value) on a map kept as the set of its entries
MapSet(map, entry) == {e \in map : e.key # entry.key} \cup {entry}

\* the renderFrame callback: the cell grid of the frame for that player
\* state, drawn from the scene as it is when the callback runs
renderFrame(x, y, dir) ==
    <<<< <<"player", x, y, dir>>,
         <<"scene", scene.other, scene.tick, scene.mode>> >>>>

\* renderCRLE(cells, previous, headerRows, renderMode): the diff output that
\* turns the previous grid into cells, and its size in bytes
renderCRLE(cells, previous) ==
    [output |-> <<"diff", previous, cells>>, bytesWithCRLE |-> 1]

\* the Map after preRenderPredictions on an enabled cache, clock reading t
preRendered(old, currentX, currentY, currentDirection, currentCells, weights, t) ==
    LET continuePos    == nextPosition(currentX, currentY, currentDirection)
        continueResult == renderCRLE(renderFrame(continuePos.x, continuePos.y,
                                                 currentDirection), currentCells)
        leftDir        == leftDirection(currentDirection)
        leftResult     == renderCRLE(renderFrame(currentX, currentY, leftDir),
                                     currentCells)
        rightDir       == rightDirection(currentDirection)
        rightResult    == renderCRLE(renderFrame(currentX, currentY, rightDir),
                                     currentCells)
        m1 == MapSet(clear(old),
                [key |-> predictionKey("continue", continuePos.x, continuePos.y,
                                       currentDirection),
                 type |-> "continue", probability |-> <<weights.continue, 1>>,
                 playerX |-> continuePos.x, playerY |-> continuePos.y,
                 direction |-> currentDirection,
                 output |-> continueResult.output,
                 bytesSize |-> continueResult.bytesWithCRLE, timestamp |-> t])
        m2 == MapSet(m1,
                [key |-> predictionKey("stop", currentX, currentY, currentDirection),
                 type |-> "stop", probability |-> <<weights.stop, 1>>,
                 playerX |-> currentX, playerY |-> currentY,
                 direction |-> currentDirection,
                 output |-> <<>>, bytesSize |-> 0, timestamp |-> t])
        m3 == MapSet(m2,
                [key |-> predictionKey("turn_left", currentX, currentY, leftDir),
                 type |-> "turn_left", probability |-> <<weights.turn, 2>>,
                 playerX |-> currentX, playerY |-> currentY,
                 direction |-> leftDir,
                 output |-> leftResult.output,
                 bytesSize |-> leftResult.bytesWithCRLE, timestamp |-> t])
    IN MapSet(m3,
                [key |-> predictionKey("turn_right", currentX, currentY, rightDir),
                 type |-> "turn_right", probability |-> <<weights.turn, 2>>,
                 playerX |-> currentX, playerY |-> currentY,
                 direction |-> rightDir,
                 output |-> rightResult.output,
                 bytesSize |-> rightResult.bytesWithCRLE, timestamp |-> t])

preRenderPredictions(currentX, currentY, currentDirection, currentCells) ==
    IF ~enabled
    THEN /\ lastPred' = [op |-> "preRender", ran |-> FALSE, renderCalls |-> 0,
                         before |-> predictions]
         /\ UNCHANGED predictions
    ELSE /\ predictions' = preRendered(predictions, currentX, currentY,
                                       currentDirection, currentCells, Weights, now)
         /\ lastPred' = [op |-> "preRender", ran |-> TRUE, renderCalls |-> 3,
                         x |-> currentX, y |-> currentY,
                         direction |-> currentDirection, at |-> now,
                         replaced |-> predictions # {}]

PreRenderPredictions ==
    /\ \E x \in PredXs, y \in PredYs, d \in Directions :
          preRenderPredictions(x, y, d, renderFrame(x, y, d))
    /\ UNCHANGED <<enabled, movementHistory, continueProbability, stopProbability,
                   turnProbability>>
    /\ UNCHANGED <<tileVars, sessVars, uiVars>>

PredictionTypes == <<"continue", "stop", "turn_left", "turn_right">>

\* variant: an entry of exactly 500 ms still counts as fresh
isFresh_inclusive(prediction, t) == t - prediction.timestamp <= FreshnessMs

\* Date.now() - prediction.timestamp < 500
isFresh(prediction, t) == t - prediction.timestamp < FreshnessMs

\* the prediction checkPrediction returns at clock reading t, or NoCall for null:
\* the first type in PredictionTypes whose key is stored and fresh
RECURSIVE checkFrom(_, _, _, _, _, _)
checkFrom(map, i, x, y, dir, t) ==
    IF i > Len(PredictionTypes) THEN NoCall
    ELSE LET key   == predictionKey(PredictionTypes[i], x, y, dir)
             found == {e \in map : e.key = key}
         IN IF found # {} /\ \E e \in found : isFresh(e, t)
            THEN CHOOSE e \in found : TRUE
            ELSE checkFrom(map, i + 1, x, y, dir, t)

checkPrediction(x, y, dir) ==
    LET result == IF ~enabled THEN NoCall ELSE checkFrom(predictions, 1, x, y, dir, now)
    IN /\ lastPred' = [op |-> "check", x |-> x, y |-> y, direction |-> dir,
                       at |-> now, result |-> result,
                       stat |-> IF ~enabled THEN "off"
                                ELSE IF result = NoCall THEN "miss" ELSE "hit"]
       /\ UNCHANGED predictions

CheckPrediction ==
    /\ \E x \in PredXs, y \in 0..(MaxPredY + 1), d \in Directions :
          checkPrediction(x, y, d)
    /\ UNCHANGED <<enabled, movementHistory, continueProbability, stopProbability,
                   turnProbability>>
    /\ UNCHANGED <<tileVars, sessVars, uiVars>>

PredClockTick ==
    /\ \E step \in ClockSteps :
          /\ now + step <= MaxPredNow
          /\ now' = now + step
    /\ UNCHANGED <<maxChunks, chunkCache, recency, lastGet, probe, lastEvict>>
    /\ UNCHANGED <<predVars, sessVars, uiVars>>

(***************************************************************************)
(* GameSession render tick and teardown, WorkerManager requests            *)
(***************************************************************************)
MaxPlayerX == 3
MaxTickCounter == 46
MaxRequests == 2
POSITION_THRESHOLD == 2
RefreshTicks == 45
NeverQueried == -999
\* player lists the worker may answer with
PlayerLists == {<<>>, <<"p2">>}

Abs(n) == IF n < 0 THEN 0 - n ELSE n

\* WorkerManager.isReady()
isReady == workerReady /\ reloadState = "running"

\* the user ids of a player list
UserIds(list) == {list[i] : i \in 1..Len(list)}

\* the user id of the session's own player
LocalUser == "me"

\* the end of tick(): updatePlayer for every cached visible player, then
\* renderer.renderToString(...) hands back a frame that is empty or not, and
\* tick() writes it when it is not empty
renderAndWrite(output, visible, refreshed) ==
    /\ players' = players \cup UserIds(visible)
    /\ streamLog' = [op |-> "tick", wrote |-> output # "", destroyed |-> destroyed,
                     refreshed |-> refreshed]

FrameOutputs == {"", "frame"}

\* start() up to the registration of the stream handlers
StartSetup ==
    /\ sessPc = "constructed"
    /\ sessPc' = "starting"
    /\ renderer' = "ready"
    /\ players' = players \cup {LocalUser}
    /\ streamLog' = [op |-> "start"]
    /\ UNCHANGED <<destroyed, tickInterval, playerX, lastQueryX, tickCounter,
                   cachedVisiblePlayers, ticks, reloadState, workerReady,
                   requestIdCounter, pendingRequests, workerInbox>>
    /\ UNCHANGED <<tileVars, predVars, uiVars>>
    /\ UNCHANGED <<timerVars, toggles>>

\* the end of start(): renderer.initialize() and setInterval(() => this.tick(), 67)
StartFinish ==
    /\ sessPc = "starting"
    /\ sessPc' = "running"
    /\ tickInterval' = TRUE
    /\ intervalSetBy' = "start"
    /\ streamLog' = [op |-> "start"]
    /\ UNCHANGED <<destroyed, renderer, playerX, lastQueryX, tickCounter,
                   cachedVisiblePlayers, ticks, reloadState, workerReady,
                   requestIdCounter, pendingRequests, workerInbox>>
    /\ UNCHANGED <<tileVars, predVars, uiVars>>
    /\ UNCHANGED <<moveTimer, inputPaused, screenPc, currentTickMs>>
    /\ UNCHANGED viewVars

\* sendRequest(msg, requestId): the request is pending with its 5 s timer and
\* the message is on its way to the worker
sendRequest(requestId) ==
    /\ requestIdCounter' = requestId
    /\ pendingRequests' = pendingRequests \cup {requestId}
    /\ workerInbox' = workerInbox \cup {requestId}

\* tick() from its start to its first suspension or its end
tick ==
    IF destroyed \/ renderer = "null"
    THEN /\ streamLog' = [op |-> "tick", wrote |-> FALSE, destroyed |-> destroyed,
                          refreshed |-> FALSE]
         /\ UNCHANGED <<tickCounter, cachedVisiblePlayers, lastQueryX, ticks,
                        requestIdCounter, pendingRequests, workerInbox, players>>
    ELSE LET counter         == tickCounter + 1
             positionChanged == Abs(playerX - lastQueryX) > POSITION_THRESHOLD
             periodicRefresh == counter % RefreshTicks = 0
         IN /\ tickCounter' = counter
            /\ IF positionChanged \/ periodicRefresh
               THEN IF ~isReady
                    THEN \* getVisiblePlayers answers [] at once
                         /\ cachedVisiblePlayers' = <<>>
                         /\ lastQueryX' = playerX
                         /\ \E output \in FrameOutputs :
                               renderAndWrite(output, <<>>, TRUE)
                         /\ UNCHANGED <<ticks, requestIdCounter, pendingRequests,
                                        workerInbox>>
                    ELSE \* sendRequest: the tick suspends on the promise
                         /\ sendRequest(requestIdCounter + 1)
                         /\ ticks' = ticks \cup {requestIdCounter + 1}
                         /\ streamLog' = [op |-> "tick", wrote |-> FALSE,
                                          destroyed |-> destroyed,
                                          refreshed |-> FALSE]
                         /\ UNCHANGED <<cachedVisiblePlayers, lastQueryX, players>>
               ELSE /\ \E output \in FrameOutputs :
                          renderAndWrite(output, cachedVisiblePlayers, FALSE)
                    /\ UNCHANGED <<cachedVisiblePlayers, lastQueryX, ticks,
                                   requestIdCounter, pendingRequests, workerInbox>>

\* the interval timer fires
TimerTick ==
    /\ tickInterval
    /\ tickCounter < MaxTickCounter
    /\ requestIdCounter < MaxRequests
    /\ tick
    /\ UNCHANGED <<sessPc, destroyed, tickInterval, renderer, playerX, reloadState,
                   workerReady>>
    /\ UNCHANGED <<tileVars, predVars, uiVars>>
    /\ UNCHANGED <<timerVars, toggles>>

\* togglePlayerList() when the list is closed: await getAllPlayers()
togglePlayerList ==
    IF ~isReady
    THEN /\ streamLog' = [op |-> "playerList", settled |-> TRUE]
         /\ UNCHANGED <<toggles, requestIdCounter, pendingRequests, workerInbox>>
    ELSE /\ sendRequest(requestIdCounter + 1)
         /\ toggles' = toggles \cup {requestIdCounter + 1}
         /\ streamLog' = [op |-> "playerList", settled |-> FALSE]

\* the toggle_players key: handleAction -> togglePlayerList
TogglePlayerList ==
    /\ sessPc # "constructed"
    /\ ~destroyed
    /\ ~inputPaused
    /\ requestIdCounter < MaxRequests
    /\ togglePlayerList
    /\ UNCHANGED <<sessPc, destroyed, tickInterval, renderer, playerX, lastQueryX,
                   tickCounter, cachedVisiblePlayers, ticks, reloadState,
                   workerReady>>
    /\ UNCHANGED <<tileVars, predVars, uiVars>>
    /\ UNCHANGED <<timerVars, players>>

\* the rest of tick() once the visible-players promise resolved with visible
tickResume(visible) ==
    /\ cachedVisiblePlayers' = visible
    /\ lastQueryX' = playerX
    /\ \E output \in FrameOutputs : renderAndWrite(output, visible, TRUE)

\* variant: the answered request keeps its entry in pendingRequests
handleWorkerMessage_keepsEntry(requestId, list) ==
    IF requestId \in pendingRequests
    THEN /\ pendingRequests' = pendingRequests
         /\ ticks' = ticks \ {requestId}
         /\ toggles' = toggles \ {requestId}
         /\ IF requestId \in ticks
            THEN tickResume(list)
            ELSE /\ streamLog' = [op |-> "response"]
                 /\ UNCHANGED <<cachedVisiblePlayers, lastQueryX, players>>
    ELSE /\ streamLog' = [op |-> "response"]
         /\ UNCHANGED <<pendingRequests, ticks, toggles, cachedVisiblePlayers,
                        lastQueryX, players>>

\* handleWorkerMessage for a visible_players / all_players answer to requestId
handleWorkerMessage(requestId, list) ==
    IF requestId \in pendingRequests
    THEN /\ pendingRequests' = pendingRequests \ {requestId}
         /\ ticks' = ticks \ {requestId}
         /\ toggles' = toggles \ {requestId}
         /\ IF requestId \in ticks
            THEN tickResume(list)
            ELSE /\ streamLog' = [op |-> "response"]
                 /\ UNCHANGED <<cachedVisiblePlayers, lastQueryX, players>>
    ELSE /\ streamLog' = [op |-> "response"]
         /\ UNCHANGED <<pendingRequests, ticks, toggles, cachedVisiblePlayers,
                        lastQueryX, players>>

WorkerResponse ==
    /\ \E requestId \in workerInbox, list \in PlayerLists :
          /\ workerInbox' = workerInbox \ {requestId}
          /\ handleWorkerMessage(requestId, list)
    /\ UNCHANGED <<sessPc, destroyed, tickInterval, renderer, playerX, tickCounter,
                   reloadState, workerReady, requestIdCounter>>
    /\ UNCHANGED <<tileVars, predVars, uiVars>>
    /\ UNCHANGED timerVars

\* a response the worker was not asked for any more: a second answer to a
\* request, or an answer with an id of its own
StrayResponse ==
    /\ \E requestId \in (1..MaxRequests) \ workerInbox, list \in PlayerLists :
          handleWorkerMessage(requestId, list)
    /\ UNCHANGED <<sessPc, destroyed, tickInterval, renderer, playerX, tickCounter,
                   reloadState, workerReady, requestIdCounter, workerInbox>>
    /\ UNCHANGED <<tileVars, predVars, uiVars>>
    /\ UNCHANGED timerVars

\* variant: the 5 s timer is dropped together with the worker
RequestTimeoutOf_lostWithWorker(requestId) ==
    /\ requestId \in pendingRequests
    /\ workerReady
    /\ pendingRequests' = pendingRequests \ {requestId}
    /\ ticks' = ticks \ {requestId}
    /\ toggles' = toggles \ {requestId}
    /\ streamLog' = [op |-> "timeout", tick |-> requestId \in ticks,
                     wrote |-> FALSE, escaped |-> TRUE]
    /\ UNCHANGED <<sessPc, destroyed, tickInterval, renderer, playerX, lastQueryX,
                   tickCounter, cachedVisiblePlayers, reloadState, workerReady,
                   requestIdCounter, workerInbox>>
    /\ UNCHANGED <<tileVars, predVars, uiVars>>
    /\ UNCHANGED <<timerVars, players>>

\* the 5 s timer of sendRequest fires for requestId: the request is deleted and
\* its promise rejected; a tick() awaiting it ends there with that rejection,
\* which nothing in tick() or in the setInterval callback catches
RequestTimeoutOf(requestId) ==
    /\ requestId \in pendingRequests
    /\ pendingRequests' = pendingRequests \ {requestId}
    /\ ticks' = ticks \ {requestId}
    /\ toggles' = toggles \ {requestId}
    /\ streamLog' = [op |-> "timeout", tick |-> requestId \in ticks,
                     wrote |-> FALSE, escaped |-> TRUE]
    /\ UNCHANGED <<sessPc, destroyed, tickInterval, renderer, playerX, lastQueryX,
                   tickCounter, cachedVisiblePlayers, reloadState, workerReady,
                   requestIdCounter, workerInbox>>
    /\ UNCHANGED <<tileVars, predVars, uiVars>>
    /\ UNCHANGED <<timerVars, players>>

RequestTimeout == \E requestId \in 1..MaxRequests : RequestTimeoutOf(requestId)

\* destroy() up to its first await
Destroy ==
    /\ sessPc # "constructed"
    /\ ~destroyed
    /\ destroyed' = TRUE
    /\ tickInterval' = FALSE
    /\ renderer' = IF renderer = "null" THEN renderer ELSE "cleaned"
    /\ moveTimer' = FALSE
    /\ players' = players \ {LocalUser}
    /\ UNCHANGED toggles
    /\ streamLog' = [op |-> "destroy"]
    /\ UNCHANGED <<sessPc, playerX, lastQueryX, tickCounter, cachedVisiblePlayers,
                   ticks, reloadState, workerReady, requestIdCounter,
                   pendingRequests, workerInbox>>
    /\ UNCHANGED <<tileVars, predVars, uiVars>>
    /\ UNCHANGED <<inputPaused, screenPc, currentTickMs, intervalSetBy>>

\* a move key: handleAction -> move(dx, 0, direction)
Move ==
    /\ sessPc # "constructed"
    /\ ~destroyed
    /\ ~inputPaused
    /\ moveTimer' = TRUE
    /\ players' = players \cup {LocalUser}
    /\ UNCHANGED toggles
    /\ \E dx \in {-1, 1} :
          /\ playerX + dx \in 0..MaxPlayerX
          /\ playerX' = playerX + dx
    /\ streamLog' = [op |-> "move"]
    /\ UNCHANGED <<sessPc, destroyed, tickInterval, renderer, lastQueryX, tickCounter,
                   cachedVisiblePlayers, ticks, reloadState, workerReady,
                   requestIdCounter, pendingRequests, workerInbox>>
    /\ UNCHANGED <<tileVars, predVars, uiVars>>
    /\ UNCHANGED <<inputPaused, screenPc, currentTickMs, intervalSetBy>>

\* the worker process exits: its 'exit' handler clears workerReady
WorkerExit ==
    /\ workerReady
    /\ workerReady' = FALSE
    /\ workerInbox' = {}
    /\ streamLog' = [op |-> "exit"]
    /\ UNCHANGED <<sessPc, destroyed, tickInterval, renderer, playerX, lastQueryX,
                   tickCounter, cachedVisiblePlayers, ticks, reloadState,
                   requestIdCounter, pendingRequests>>
    /\ UNCHANGED <<tileVars, predVars, uiVars, viewVars>>
    /\ UNCHANGED timerVars

\* the restarted worker reports 'ready'
WorkerReady ==
    /\ ~workerReady
    /\ workerReady' = TRUE
    /\ streamLog' = [op |-> "ready"]
    /\ UNCHANGED <<sessPc, destroyed, tickInterval, renderer, playerX, lastQueryX,
                   tickCounter, cachedVisiblePlayers, ticks, reloadState,
                   requestIdCounter, pendingRequests, workerInbox>>
    /\ UNCHANGED <<tileVars, predVars, uiVars, viewVars>>
    /\ UNCHANGED timerVars

\* the 200 ms timer of move() fires
MoveTimerFire ==
    /\ moveTimer
    /\ moveTimer' = FALSE
    /\ streamLog' = [op |-> "moveTimer"]
    /\ UNCHANGED <<sessPc, destroyed, tickInterval, renderer, playerX, lastQueryX,
                   tickCounter, cachedVisiblePlayers, ticks, reloadState, workerReady,
                   requestIdCounter, pendingRequests, workerInbox>>
    /\ UNCHANGED <<tileVars, predVars, uiVars, viewVars>>
    /\ UNCHANGED <<inputPaused, screenPc, currentTickMs, intervalSetBy>>

\* getTargetTickMs(): 67, 100 or 150 ms by the renderer's zoom level
TickRates == {67, 100, 150}

\* the zoom levels of the renderer, in steps of ten percent
MaxZoomStep == 10
ZoomLevels == {10 * step : step \in 0..MaxZoomStep}

\* getTargetTickMs() for a renderer at that zoom level
getTargetTickMs(zoom) ==
    IF zoom <= 30 THEN 67 ELSE IF zoom <= 60 THEN 100 ELSE 150

\* the period of the interval that is armed: 67 from start() and from the end
\* of a screen, currentTickMs from updateTickInterval
tickPeriod == IF intervalSetBy = "zoom" THEN currentTickMs ELSE 67

\* updateTickInterval() once zoomIn / zoomOut left the zoom at targetMs's level
updateTickInterval(targetMs) ==
    IF targetMs = currentTickMs
    THEN UNCHANGED <<currentTickMs, tickInterval, intervalSetBy>>
    ELSE /\ currentTickMs' = targetMs
         /\ UNCHANGED tickInterval
         /\ intervalSetBy' = IF tickInterval THEN "zoom" ELSE intervalSetBy

\* a zoom key: handleAction -> renderer.zoomIn / zoomOut, updateTickInterval
Zoom ==
    /\ sessPc # "constructed"
    /\ ~destroyed
    /\ ~inputPaused
    /\ \E zoom \in ZoomLevels :
          /\ updateTickInterval(getTargetTickMs(zoom))
          /\ streamLog' = [op |-> "zoom", zoom |-> zoom]
    /\ UNCHANGED <<sessPc, destroyed, renderer, playerX, lastQueryX,
                   tickCounter, cachedVisiblePlayers, ticks, reloadState, workerReady,
                   requestIdCounter, pendingRequests, workerInbox>>
    /\ UNCHANGED <<tileVars, predVars, uiVars, viewVars>>
    /\ UNCHANGED <<moveTimer, inputPaused, screenPc>>

\* openAvatarScreen / openBuildingScreen up to await screen.run()
OpenScreen ==
    /\ sessPc # "constructed"
    /\ ~destroyed
    /\ ~inputPaused
    /\ inputPaused' = TRUE
    /\ tickInterval' = FALSE
    /\ renderer' = IF renderer = "null" THEN renderer ELSE "cleaned"
    /\ screenPc' = "running"
    /\ streamLog' = [op |-> "screen"]
    /\ UNCHANGED <<sessPc, destroyed, playerX, lastQueryX,
                   tickCounter, cachedVisiblePlayers, ticks, reloadState, workerReady,
                   requestIdCounter, pendingRequests, workerInbox>>
    /\ UNCHANGED <<tileVars, predVars, uiVars, viewVars>>
    /\ UNCHANGED <<moveTimer, currentTickMs, intervalSetBy>>

\* the end of openAvatarScreen / openBuildingScreen: a new renderer, input
\* resumed, setInterval(() => this.tick(), 67)
screenResume ==
    /\ screenPc' = "none"
    /\ inputPaused' = FALSE
    /\ renderer' = "ready"
    /\ tickInterval' = TRUE
    /\ intervalSetBy' = "screen"

\* the user cancels: screen.run() resolves with 'cancel' from its data listener,
\* which destroy() removes from the stream
ScreenCancel ==
    /\ screenPc = "running"
    /\ ~destroyed
    /\ screenResume
    /\ streamLog' = [op |-> "screen"]
    /\ UNCHANGED <<sessPc, destroyed, playerX, lastQueryX,
                   tickCounter, cachedVisiblePlayers, ticks, reloadState, workerReady,
                   requestIdCounter, pendingRequests, workerInbox>>
    /\ UNCHANGED <<tileVars, predVars, uiVars, viewVars>>
    /\ UNCHANGED <<moveTimer, currentTickMs>>

\* the user confirms: screen.run() resolves with 'confirm' and the method
\* awaits saveAvatar / saveBuilding
ScreenConfirm ==
    /\ screenPc = "running"
    /\ ~destroyed
    /\ screenPc' = "saving"
    /\ streamLog' = [op |-> "screen"]
    /\ UNCHANGED <<sessPc, destroyed, tickInterval, renderer, playerX, lastQueryX,
                   tickCounter, cachedVisiblePlayers, ticks, reloadState, workerReady,
                   requestIdCounter, pendingRequests, workerInbox>>
    /\ UNCHANGED <<tileVars, predVars, uiVars, viewVars>>
    /\ UNCHANGED <<moveTimer, inputPaused, currentTickMs, intervalSetBy>>

\* saveAvatar / saveBuilding settles and the method runs to its end
ScreenSaved ==
    /\ screenPc = "saving"
    /\ screenResume
    /\ streamLog' = [op |-> "screen"]
    /\ UNCHANGED <<sessPc, destroyed, playerX, lastQueryX,
                   tickCounter, cachedVisiblePlayers, ticks, reloadState, workerReady,
                   requestIdCounter, pendingRequests, workerInbox>>
    /\ UNCHANGED <<tileVars, predVars, uiVars, viewVars>>
    /\ UNCHANGED <<moveTimer, currentTickMs>>

(***************************************************************************)
(* quantizeBrightness (src/unnamed/part_006)                               *)
(*                                                                         *)
(* A brightness is the IEEE double nearest to a decimal number of          *)
(* thousandths. It is kept exactly, as the pair of its thousandths and of  *)
(* the error of the double, the error counted in units of                  *)
(* 1 / (1000 * 2^55), which every double from 0.125 up to 4 is a multiple  *)
(* of. The subtractions of quantizeBrightness whose comparison can decide  *)
(* the result are between doubles within a factor of two of each other,    *)
(* which IEEE arithmetic performs exactly.                                 *)
(***************************************************************************)
MinBrightness == 125
MaxBrightness == 2000
BrightnessInputs == MinBrightness..MaxBrightness

\* 2^q modulo 1000
RECURSIVE Pow2Mod(_)
Pow2Mod(q) == IF q = 0 THEN 1 ELSE (2 * Pow2Mod(q - 1)) % 1000

\* the binary exponent j of milli / 1000, with 2^j <= milli / 1000 < 2^(j+1)
ExponentOf(milli) ==
    IF milli < 250 THEN 0 - 3
    ELSE IF milli < 500 THEN 0 - 2
    ELSE IF milli < 1000 THEN 0 - 1
    ELSE IF milli < 2000 THEN 0
    ELSE 1

\* the double nearest to milli / 1000: a double with exponent j is a multiple
\* of 2^(j-52), so the remainder of milli * 2^(52-j) by 1000 tells how far
\* the decimal lies above the double below it (the remainder is never 500)
ToDouble(milli) ==
    LET j         == ExponentOf(milli)
        remainder == ((milli % 1000) * Pow2Mod(52 - j)) % 1000
        unit      == 2 ^ (j + 3)
    IN [milli |-> milli,
        err   |-> IF remainder < 500 THEN 0 - (remainder * unit)
                  ELSE (1000 - remainder) * unit]

\* BRIGHTNESS_LEVELS = [0.7, 0.85, 1.0, 1.15, 1.3], in thousandths
BRIGHTNESS_LEVELS == <<700, 850, 1000, 1150, 1300>>

\* Math.abs(brightness - level), exactly: thousandths first, then error units
Distance(b, level) ==
    LET dm == b.milli - level.milli
        de == b.err - level.err
    IN IF dm > 0 THEN <<dm, de>>
       ELSE IF dm < 0 THEN <<0 - dm, 0 - de>>
       ELSE <<0, IF de < 0 THEN 0 - de ELSE de>>

\* variant: dist <= minDist, so that a later level wins a tie
Closer_orEqual(dist, minDist) ==
    \/ dist[1] < minDist[1]
    \/ (dist[1] = minDist[1] /\ dist[2] <= minDist[2])

\* dist < minDist
Closer(dist, minDist) ==
    \/ dist[1] < minDist[1]
    \/ (dist[1] = minDist[1] /\ dist[2] < minDist[2])

\* the loop of quantizeBrightness from level i on
RECURSIVE quantizeFrom(_, _, _, _)
quantizeFrom(b, i, closest, minDist) ==
    IF i > Len(BRIGHTNESS_LEVELS) THEN closest
    ELSE LET level == BRIGHTNESS_LEVELS[i]
             dist  == Distance(b, ToDouble(level))
         IN IF Closer(dist, minDist)
            THEN quantizeFrom(b, i + 1, level, dist)
            ELSE quantizeFrom(b, i + 1, closest, minDist)

\* quantizeBrightness(brightness), brightness the double of milli / 1000
quantizeBrightness(milli) ==
    LET b == ToDouble(milli)
    IN quantizeFrom(b, 1, BRIGHTNESS_LEVELS[1],
                    Distance(b, ToDouble(BRIGHTNESS_LEVELS[1])))

\* precomputed: the level of every brightness asked for
QuantizeTable == [milli \in BrightnessInputs |-> quantizeBrightness(milli)]

QuantizeBrightness ==
    /\ \E milli \in BrightnessInputs :
          lastQuantize' = [op |-> "quantize", input |-> milli,
                           result |-> QuantizeTable[milli]]
    /\ UNCHANGED <<variants, accessOrder, maxSize, useOrder, lastVariant>>
    /\ UNCHANGED <<tileVars, predVars,
                   sessVars, reloadVars, asyncVars, compVars, drawVars>>

(***************************************************************************)
(* BrightnessVariantCache (src/unnamed/part_006)                           *)
(***************************************************************************)
MaxBrightSize == 2
\* ids and brightness values get is asked for; ids pregenerate is asked for
VariantIds == {"a", "b"}
PregenerateIds == {"a"}
BrightnessRequests == {500, 1000, 1300}

\* cacheKey(id, brightness): `${id}:${brightness.toFixed(2)}`
cacheKey(id, level) == <<id, level \div 10>>

RECURSIVE Without(_, _)
\* order with every occurrence of key removed
Without(order, key) ==
    IF order = <<>> THEN <<>>
    ELSE IF Head(order) = key THEN Without(Tail(order), key)
    ELSE <<Head(order)>> \o Without(Tail(order), key)

\* the first index of key in order, 0 for indexOf's -1
IndexOf(order, key) ==
    IF \E i \in 1..Len(order) : order[i] = key
    THEN CHOOSE i \in 1..Len(order) :
            order[i] = key /\ \A j \in 1..(i - 1) : order[j] # key
    ELSE 0

\* variant: a hit leaves the access order as it is
moveToEnd_keeps(order, key) == order

\* get on a hit: splice(idx, 1) and push(key) when indexOf found the key
moveToEnd(order, key) ==
    LET idx == IndexOf(order, key)
    IN IF idx # 0
       THEN SubSeq(order, 1, idx - 1) \o SubSeq(order, idx + 1, Len(order))
               \o <<key>>
       ELSE order

RECURSIVE evictWhileFull(_, _, _)
\* get on a miss: while (cache.size >= maxSize && accessOrder.length > 0)
\* shift the oldest key and delete it; yields the cache and order left
evictWhileFull(cache, order, size) ==
    IF Cardinality(cache) >= size /\ Len(order) > 0
    THEN evictWhileFull(cache \ {Head(order)}, Tail(order), size)
    ELSE [cache |-> cache, order |-> order]

\* BrightnessVariantCache.get(id, grid, brightness)
get(id, brightness) ==
    LET quantized == QuantizeTable[brightness]
        key       == cacheKey(id, quantized)
    IN IF quantized = 1000
       THEN /\ lastVariant' = [op |-> "get", neutral |-> TRUE, hit |-> FALSE,
                               evicted |-> 0]
            /\ UNCHANGED <<variants, accessOrder, useOrder>>
       ELSE IF key \in variants
       THEN /\ accessOrder' = moveToEnd(accessOrder, key)
            /\ useOrder' = Without(useOrder, key) \o <<key>>
            /\ lastVariant' = [op |-> "get", neutral |-> FALSE, hit |-> TRUE,
                               evicted |-> 0]
            /\ UNCHANGED variants
       ELSE LET left == evictWhileFull(variants, accessOrder, maxSize)
            IN /\ variants' = left.cache \cup {key}
               /\ accessOrder' = Append(left.order, key)
               /\ useOrder' = Append(SelectSeq(useOrder,
                                               LAMBDA k : k \in left.cache), key)
               /\ lastVariant' = [op |-> "get", neutral |-> FALSE, hit |-> FALSE,
                                  evicted |-> Cardinality(variants \ left.cache)]

Get ==
    /\ \E id \in VariantIds, brightness \in BrightnessRequests : get(id, brightness)
    /\ UNCHANGED <<lastQuantize, maxSize>>
    /\ UNCHANGED <<tileVars, predVars,
                   sessVars, reloadVars, asyncVars, compVars, drawVars>>

RECURSIVE pregenerateFrom(_, _, _, _)
\* the loop of pregenerate from level i on; yields the cache and order left
pregenerateFrom(id, i, cache, order) ==
    IF i > Len(BRIGHTNESS_LEVELS) THEN [cache |-> cache, order |-> order]
    ELSE LET level == BRIGHTNESS_LEVELS[i]
             key   == cacheKey(id, level)
         IN IF level # 1000 /\ key \notin cache
            THEN pregenerateFrom(id, i + 1, cache \cup {key}, Append(order, key))
            ELSE pregenerateFrom(id, i + 1, cache, order)

\* BrightnessVariantCache.pregenerate(id, grid)
pregenerate(id) ==
    LET after == pregenerateFrom(id, 1, variants, accessOrder)
    IN /\ variants' = after.cache
       /\ accessOrder' = after.order
       /\ useOrder' = useOrder \o SubSeq(after.order, Len(accessOrder) + 1,
                                         Len(after.order))
       /\ lastVariant' = [op |-> "pregenerate",
                          added |-> Cardinality(after.cache \ variants)]

Pregenerate ==
    /\ \E id \in PregenerateIds : pregenerate(id)
    /\ UNCHANGED <<lastQuantize, maxSize>>
    /\ UNCHANGED <<tileVars, predVars,
                   sessVars, reloadVars, asyncVars, compVars, drawVars>>

\* BrightnessVariantCache.clear()
ClearVariants ==
    /\ variants # {}
    /\ variants' = {}
    /\ accessOrder' = <<>>
    /\ useOrder' = <<>>
    /\ lastVariant' = [op |-> "clear"]
    /\ UNCHANGED <<lastQuantize, maxSize>>
    /\ UNCHANGED <<tileVars, predVars,
                   sessVars, reloadVars, asyncVars, compVars, drawVars>>

(***************************************************************************)
(* Component and ComponentManager (src/packages/render/src/components)     *)
(***************************************************************************)
MaxFocusDepth == 3
MaxRoots == 2

\* the components a manager is handed: the help modal of the session, a
\* Component configured modal that keeps the base handleInput, and a Component
\* that is not modal
ComponentIds == {"help-modal", "dialog", "panel"}
\* the session's player list modal, which only the session pushes and pops
PlayerList == "player-list"
SessionComponents == ComponentIds \cup {PlayerList}
InputKeys == {"Escape", "other"}

\* Component.isModal(): the modal flag of the configuration
isModal(c) == c \in {"help-modal", "dialog", PlayerList}

\* Component.init()
init(st, c) == [st EXCEPT ![c] = "mounted"]

\* Component.show()
show(vis, c) == IF vis[c] THEN vis ELSE [vis EXCEPT ![c] = TRUE]

\* Component.hide()
hide(vis, c) == IF ~vis[c] THEN vis ELSE [vis EXCEPT ![c] = FALSE]

\* Component.focus()
focus(st, c) == IF st[c] = "focused" THEN st ELSE [st EXCEPT ![c] = "focused"]

\* Component.blur()
blur(st, c) == IF st[c] # "focused" THEN st ELSE [st EXCEPT ![c] = "mounted"]

\* Component.destroy()
destroy(st, c) == [st EXCEPT ![c] = "destroyed"]

\* ComponentManager.getFocusedComponent(), for a stack that is not empty
getFocusedComponent(stack) == stack[Len(stack)]

\* focus() on the top of the stack when there is one
focusTop(st, stack) ==
    IF stack # <<>> THEN focus(st, getFocusedComponent(stack)) ELSE st

\* variant: pushFocus leaves the component that had the focus as it is
blurTop_skips(st, stack) == st

\* pushFocus: blur() on the top of the stack when there is one
blurTop(st, stack) ==
    IF stack # <<>> THEN blur(st, getFocusedComponent(stack)) ELSE st

\* ComponentManager.pushFocus(component)
pushFocus(c) ==
    /\ focusStack' = Append(focusStack, c)
    /\ isVisible' = show(isVisible, c)
    /\ state' = focus(blurTop(state, focusStack), c)

PushFocus ==
    /\ Len(focusStack) < MaxFocusDepth
    /\ \E c \in ComponentIds :
          /\ pushFocus(c)
          /\ lastCall' = [op |-> "pushFocus", component |-> c]
    /\ UNCHANGED rootComponents
    /\ UNCHANGED <<tileVars, predVars,
                   sessVars, reloadVars, asyncVars, brightVars, drawVars>>

\* ComponentManager.popFocus() on the given fields; yields the fields it leaves
popFocus(st, vis, stack) ==
    IF stack = <<>> THEN [state |-> st, isVisible |-> vis, focusStack |-> stack]
    ELSE LET component == getFocusedComponent(stack)
             rest      == SubSeq(stack, 1, Len(stack) - 1)
         IN [state      |-> focusTop(blur(st, component), rest),
             isVisible  |-> hide(vis, component),
             focusStack |-> rest]

PopFocus ==
    /\ LET after == popFocus(state, isVisible, focusStack)
       IN /\ state' = after.state
          /\ isVisible' = after.isVisible
          /\ focusStack' = after.focusStack
    /\ lastCall' = [op |-> "popFocus"]
    /\ UNCHANGED rootComponents
    /\ UNCHANGED <<tileVars, predVars,
                   sessVars, reloadVars, asyncVars, brightVars, drawVars>>

\* ComponentManager.removeFocus(component) on the given fields
removeFocus(st, vis, stack, c) ==
    LET index == IndexOf(stack, c)
    IN IF index = 0
       THEN [state |-> st, isVisible |-> vis, focusStack |-> stack]
       ELSE LET rest == SubSeq(stack, 1, index - 1)
                           \o SubSeq(stack, index + 1, Len(stack))
            IN [state      |-> focusTop(blur(st, c), rest),
                isVisible  |-> hide(vis, c),
                focusStack |-> rest]

RemoveFocus ==
    /\ \E c \in ComponentIds :
          /\ LET after == removeFocus(state, isVisible, focusStack, c)
             IN /\ state' = after.state
                /\ isVisible' = after.isVisible
                /\ focusStack' = after.focusStack
          /\ lastCall' = [op |-> "removeFocus", component |-> c]
    /\ UNCHANGED rootComponents
    /\ UNCHANGED <<tileVars, predVars,
                   sessVars, reloadVars, asyncVars, brightVars, drawVars>>

\* ComponentManager.addComponent(component)
AddComponent ==
    /\ Len(rootComponents) < MaxRoots
    /\ \E c \in ComponentIds :
          /\ rootComponents' = Append(rootComponents, c)
          /\ state' = init(state, c)
          /\ lastCall' = [op |-> "addComponent", component |-> c]
    /\ UNCHANGED <<isVisible, focusStack>>
    /\ UNCHANGED <<tileVars, predVars,
                   sessVars, reloadVars, asyncVars, brightVars, drawVars>>

\* ComponentManager.removeComponent(component)
RemoveComponent ==
    /\ \E c \in ComponentIds :
          LET index == IndexOf(rootComponents, c)
          IN /\ IF index = 0
                THEN UNCHANGED <<rootComponents, state, isVisible, focusStack>>
                ELSE LET after == removeFocus(destroy(state, c), isVisible,
                                              focusStack, c)
                     IN /\ rootComponents' =
                              SubSeq(rootComponents, 1, index - 1)
                                 \o SubSeq(rootComponents, index + 1,
                                           Len(rootComponents))
                        /\ state' = after.state
                        /\ isVisible' = after.isVisible
                        /\ focusStack' = after.focusStack
             /\ lastCall' = [op |-> "removeComponent", component |-> c,
                             removed |-> index # 0]
    /\ UNCHANGED <<tileVars, predVars,
                   sessVars, reloadVars, asyncVars, brightVars, drawVars>>

\* the handled field of what the component's handleInput returns: the modals
\* of the session answer handled to every key, the base Component answers
\* not handled
handles(c) == c \in {"help-modal", PlayerList}

\* the key makes the component call requestClose(), whose callback the session
\* sets to popFocus
closes(c, key) == c \in {"help-modal", PlayerList} /\ key = "Escape"

\* variant: a modal on top does not stop the routing
blocksInput_never(stack) == FALSE

\* handleInput: if (focused && focused.isModal())
blocksInput(stack) == stack # <<>> /\ isModal(getFocusedComponent(stack))

RECURSIVE routeFrom(_, _)
\* handleInput: the components the loop from index i down calls, in order
routeFrom(stack, i) ==
    IF i = 0 THEN <<>>
    ELSE IF handles(stack[i]) THEN <<stack[i]>>
    ELSE <<stack[i]>> \o routeFrom(stack, i - 1)

\* the components whose handleInput the manager calls for one event
receivers(stack) ==
    IF blocksInput(stack) THEN <<getFocusedComponent(stack)>>
    ELSE routeFrom(stack, Len(stack))

\* ComponentManager.handleInput(event)
handleInput(key) ==
    LET received == receivers(focusStack)
        last     == IF received = <<>> THEN "none" ELSE received[Len(received)]
        closing  == received # <<>> /\ closes(last, key)
        after    == IF closing THEN popFocus(state, isVisible, focusStack)
                    ELSE [state |-> state, isVisible |-> isVisible,
                          focusStack |-> focusStack]
    IN /\ state' = after.state
       /\ isVisible' = after.isVisible
       /\ focusStack' = after.focusStack
       /\ lastCall' = [op |-> "handleInput", stack |-> focusStack,
                       received |-> received,
                       handled |-> (received # <<>> /\ handles(last))]

HandleInput ==
    /\ \E key \in InputKeys : handleInput(key)
    /\ UNCHANGED rootComponents
    /\ UNCHANGED <<tileVars, predVars,
                   sessVars, reloadVars, asyncVars, brightVars, drawVars>>

(***************************************************************************)
(* Terrain classification on any pair of samples                           *)
(***************************************************************************)
MaxTerrainValue == 100
TerrainValues == 0..MaxTerrainValue

\* generateChunk: row.push(this.getTileIdFromTerrain(elevation, moisture, rand)),
\* one call per behaviour
ClassifyTerrain ==
    /\ lastTerrain = NoCall
    /\ \E elevation \in TerrainValues, moisture \in TerrainValues :
          lastTerrain' = [op |-> "classify", elevation |-> elevation,
                          moisture |-> moisture,
                          result |-> getTileIdFromTerrain(elevation, moisture)]
    /\ UNCHANGED <<lastScale, pendingOverlays, lastRender, objVars>>
    /\ UNCHANGED <<tileVars, predVars,
                   sessVars, reloadVars, asyncVars, brightVars, compVars>>

(***************************************************************************)
(* Pixel grids and ViewportRenderer.scaleFrame (src/unnamed/part_005)      *)
(*                                                                         *)
(* A PixelGrid is a sequence of rows, a row a sequence of pixels; a pixel  *)
(* is a string, "null" for the transparent null.  The code's indices start *)
(* at 0 and the sequences' at 1.                                           *)
(***************************************************************************)
\* grid[y]?.[x] ?? null
PixelAt(grid, y, x) ==
    IF y + 1 \in 1..Len(grid)
    THEN (IF x + 1 \in 1..Len(grid[y + 1]) THEN grid[y + 1][x + 1] ELSE "null")
    ELSE "null"

\* frame.length and frame[0]?.length ?? 0
GridHeight(grid) == Len(grid)
GridWidth(grid) == IF Len(grid) > 0 THEN Len(grid[1]) ELSE 0

\* variant: the target size is taken the wrong way round
scaleFrame_transposed(frame, targetWidth, targetHeight) ==
    LET srcHeight == GridHeight(frame)
        srcWidth  == GridWidth(frame)
    IN IF srcWidth = targetWidth /\ srcHeight = targetHeight THEN frame
       ELSE [y \in 1..targetWidth |-> [x \in 1..targetHeight |->
               PixelAt(frame, ((y - 1) * srcHeight) \div targetWidth,
                              ((x - 1) * srcWidth) \div targetHeight)]]

\* scaleFrame(frame, targetWidth, targetHeight)
scaleFrame(frame, targetWidth, targetHeight) ==
    LET srcHeight == GridHeight(frame)
        srcWidth  == GridWidth(frame)
    IN IF srcWidth = targetWidth /\ srcHeight = targetHeight THEN frame
       ELSE [y \in 1..targetHeight |-> [x \in 1..targetWidth |->
               PixelAt(frame, ((y - 1) * srcHeight) \div targetHeight,
                              ((x - 1) * srcWidth) \div targetWidth)]]

MaxGridSide == 3
GridSides == 0..MaxGridSide

\* a label for each cell of a grid, by row and column
PixelNames == << <<"p00", "p01", "p02", "p03", "p04">>,
                 <<"p10", "p11", "p12", "p13", "p14">>,
                 <<"p20", "p21", "p22", "p23", "p24">>,
                 <<"p30", "p31", "p32", "p33", "p34">>,
                 <<"p40", "p41", "p42", "p43", "p44">> >>

\* the grids handed to scaleFrame: every height and width, every cell its own
\* colour, or with transparent cells on the diagonal
SourceGrids ==
    {[y \in 1..h |-> [x \in 1..w |-> PixelNames[y][x]]] :
        h \in GridSides, w \in GridSides}
    \cup {[y \in 1..h |-> [x \in 1..w |->
                IF x = y THEN "null" ELSE PixelNames[y][x]]] :
            h \in GridSides, w \in GridSides}

\* scaleFrame(frame, w, h) and scaleFrame of its result, one pair of calls per
\* behaviour
ScaleFrame ==
    /\ lastScale = NoCall
    /\ \E frame \in SourceGrids, w \in GridSides, h \in GridSides :
          LET once == scaleFrame(frame, w, h)
          IN lastScale' = [op |-> "scale", frame |-> frame, w |-> w, h |-> h,
                           once |-> once, twice |-> scaleFrame(once, w, h)]
    /\ UNCHANGED <<lastTerrain, pendingOverlays, lastRender, objVars>>
    /\ UNCHANGED <<tileVars, predVars,
                   sessVars, reloadVars, asyncVars, brightVars, compVars>>

(***************************************************************************)
(* ViewportRenderer.renderToBuffer (src/unnamed/part_005)                  *)
(*                                                                         *)
(* view is the renderer's configuration and camera: widthTiles,            *)
(* heightTiles, tileRenderSize, cameraX, cameraY.  world is what the       *)
(* WorldDataProvider answers: tile (getTile, the same tile at every        *)
(* position), players (getPlayers, in the order of the Map), sprites       *)
(* (getPlayerSprite by user id) and localId (getLocalPlayerId).            *)
(***************************************************************************)
\* createEmptyGrid(width, height): rows of transparent pixels
createEmptyGrid(width, height) ==
    [y \in 1..height |-> [x \in 1..width |-> "null"]]

\* row[x] = pixel on a JavaScript array: an index from the length on makes
\* the array longer, a negative one leaves its length alone
SetIndex(row, x, pixel) ==
    IF x < 0 THEN row
    ELSE [i \in 1..(IF x + 1 > Len(row) THEN x + 1 ELSE Len(row)) |->
            IF i = x + 1 THEN pixel
            ELSE IF i <= Len(row) THEN row[i] ELSE "hole"]

\* buffer[y]![x] = pixel; every caller has tested that row y exists
SetPixel(buffer, y, x, pixel) ==
    IF y + 1 \in 1..Len(buffer)
    THEN [buffer EXCEPT ![y + 1] = SetIndex(buffer[y + 1], x, pixel)]
    ELSE buffer

\* renderTiles: the frame of the tile drawn at this tick
tilePixels(tile, tickNo) ==
    IF tile.animated /\ tile.animationFrames.has
    THEN LET count      == Len(tile.animationFrames.list)
             frameIndex == IF count = 0 THEN 0 ELSE (tickNo \div 15) % count
         IN IF tile.animationResolutions.has
            THEN (IF frameIndex < Len(tile.animationResolutions.list)
                  THEN tile.animationResolutions.list[frameIndex + 1]
                  ELSE tile.pixels)
            ELSE (IF frameIndex < count
                  THEN tile.animationFrames.list[frameIndex + 1]
                  ELSE tile.pixels)
    ELSE IF tile.resolutions.has THEN tile.resolutions.grid ELSE tile.pixels

RECURSIVE copyTile(_, _, _, _, _, _)
\* renderTiles: the loops over py and px that copy one tile, from step k on
copyTile(buffer, scaledPixels, bufferX, bufferY, size, k) ==
    IF k >= size * size THEN buffer
    ELSE LET py == k \div size
             px == k % size
         IN IF py < Len(scaledPixels) /\ px < Len(scaledPixels[py + 1])
               /\ scaledPixels[py + 1][px + 1] # "null"
               /\ bufferY + py < Len(buffer)
            THEN copyTile(SetPixel(buffer, bufferY + py, bufferX + px,
                                   scaledPixels[py + 1][px + 1]),
                          scaledPixels, bufferX, bufferY, size, k + 1)
            ELSE copyTile(buffer, scaledPixels, bufferX, bufferY, size, k + 1)

RECURSIVE renderTiles(_, _, _, _, _)
\* renderTiles(buffer, world, tick): the loops over ty and tx, from tile k on
renderTiles(buffer, view, world, tickNo, k) ==
    IF k >= view.widthTiles * view.heightTiles THEN buffer
    ELSE LET ty == k \div view.widthTiles
             tx == k % view.widthTiles
         IN IF world.tile.isNull
            THEN renderTiles(buffer, view, world, tickNo, k + 1)
            ELSE renderTiles(
                    copyTile(buffer,
                             scaleFrame(tilePixels(world.tile, tickNo),
                                        view.tileRenderSize, view.tileRenderSize),
                             tx * view.tileRenderSize, ty * view.tileRenderSize,
                             view.tileRenderSize, 0),
                    view, world, tickNo, k + 1)

RECURSIVE sortByY(_)
\* variant: the players are sorted by Y from the greatest down
sortByY_descending(list) ==
    IF list = <<>> THEN <<>>
    ELSE LET sorted == sortByY(SubSeq(list, 1, Len(list) - 1))
             last   == list[Len(list)]
             before == SelectSeq(sorted, LAMBDA q : q.y >= last.y)
             after  == SelectSeq(sorted, LAMBDA q : q.y < last.y)
         IN before \o <<last>> \o after

\* [...players].sort((a, b) => a.y - b.y): ascending in y, and stable
sortByY(list) ==
    IF list = <<>> THEN <<>>
    ELSE LET sorted == sortByY(SubSeq(list, 1, Len(list) - 1))
             last   == list[Len(list)]
             before == SelectSeq(sorted, LAMBDA q : q.y <= last.y)
             after  == SelectSeq(sorted, LAMBDA q : q.y > last.y)
         IN before \o <<last>> \o after

\* variant: only the rows are clipped
outsideBuffer_rowsOnly(buffer, targetY, targetX) ==
    targetY < 0 \/ targetY >= Len(buffer)

\* renderPlayers: the tests that skip a pixel outside the buffer
outsideBuffer(buffer, targetY, targetX) ==
    \/ targetY < 0 \/ targetY >= Len(buffer)
    \/ targetX < 0 \/ targetX >= Len(buffer[targetY + 1])

RECURSIVE compositeSprite(_, _, _, _, _)
\* renderPlayers: the loops over py and px that composite one frame, from
\* step k on
compositeSprite(buffer, frame, bufferX, bufferY, k) ==
    LET width == GridWidth(frame)
    IN IF width = 0 \/ k >= Len(frame) * width THEN buffer
       ELSE LET py      == k \div width
                px      == k % width
                targetY == bufferY + py
                targetX == bufferX + px
            IN IF \/ frame[py + 1][px + 1] = "null"
                  \/ outsideBuffer(buffer, targetY, targetX)
               THEN compositeSprite(buffer, frame, bufferX, bufferY, k + 1)
               ELSE compositeSprite(SetPixel(buffer, targetY, targetX,
                                             frame[py + 1][px + 1]),
                                    frame, bufferX, bufferY, k + 1)

RECURSIVE fillMarker(_, _, _, _, _)
\* renderPlaceholderPlayer: the loops over py and px, from step k on
fillMarker(buffer, bufferX, bufferY, markerSize, k) ==
    IF k >= markerSize * markerSize THEN buffer
    ELSE LET targetY == bufferY + (k \div markerSize)
             targetX == bufferX + (k % markerSize)
         IN IF /\ targetY >= 0 /\ targetY < Len(buffer)
               /\ targetX >= 0 /\ targetX < Len(buffer[targetY + 1])
            THEN fillMarker(SetPixel(buffer, targetY, targetX, "placeholder"),
                            bufferX, bufferY, markerSize, k + 1)
            ELSE fillMarker(buffer, bufferX, bufferY, markerSize, k + 1)

\* renderPlaceholderPlayer(buffer, player)
renderPlaceholderPlayer(buffer, view, player) ==
    LET screenTileX == player.x - view.cameraX
        screenTileY == player.y - view.cameraY
    IN IF \/ screenTileX < 0 \/ screenTileX >= view.widthTiles
          \/ screenTileY < 0 \/ screenTileY >= view.heightTiles
       THEN buffer
       ELSE fillMarker(buffer, screenTileX * view.tileRenderSize,
                       screenTileY * view.tileRenderSize, view.tileRenderSize, 0)

Max(a, b) == IF a >= b THEN a ELSE b

\* renderPlayers: the username overlay of a player
usernameOverlay(view, player) ==
    [text   |-> player.userId,
     pixelX |-> (player.x - view.cameraX) * view.tileRenderSize
                   + (view.tileRenderSize \div 2),
     pixelY |-> (player.y - view.cameraY) * view.tileRenderSize
                   - Max(6, view.tileRenderSize \div 10)]

RECURSIVE renderPlayers(_, _, _, _, _)
\* renderPlayers: the loop over sortedPlayers from player i on; out holds the
\* buffer, the overlays pushed and the user ids in the order drawn
renderPlayers(out, view, world, sortedPlayers, i) ==
    IF i > Len(sortedPlayers) THEN out
    ELSE LET player == sortedPlayers[i]
             sprite == world.sprites[player.userId]
         IN IF sprite = "none"
            THEN renderPlayers(
                    [out EXCEPT !.buffer = renderPlaceholderPlayer(out.buffer, view,
                                                                   player),
                                !.drawn = Append(out.drawn, player.userId)],
                    view, world, sortedPlayers, i + 1)
            ELSE IF sprite = "noframe"
            THEN renderPlayers(out, view, world, sortedPlayers, i + 1)
            ELSE LET rawFrame == IF sprite = "clear" THEN << <<"null">> >>
                                 ELSE << <<player.userId>> >>
                     frame    == scaleFrame(rawFrame, view.tileRenderSize,
                                            view.tileRenderSize)
                     drawn    == compositeSprite(
                                    out.buffer, frame,
                                    (player.x - view.cameraX) * view.tileRenderSize,
                                    (player.y - view.cameraY) * view.tileRenderSize,
                                    0)
                 IN renderPlayers(
                       [buffer   |-> drawn,
                        overlays |-> IF player.userId # world.localId
                                     THEN Append(out.overlays,
                                                 usernameOverlay(view, player))
                                     ELSE out.overlays,
                        drawn    |-> Append(out.drawn, player.userId)],
                       view, world, sortedPlayers, i + 1)

\* renderToBuffer(world, tick): the buffer and the overlays it returns
renderToBuffer(view, world, tickNo) ==
    LET pixelWidth  == view.widthTiles * view.tileRenderSize
        pixelHeight == view.heightTiles * view.tileRenderSize
        tiles       == renderTiles(createEmptyGrid(pixelWidth, pixelHeight),
                                   view, world, tickNo, 0)
    IN renderPlayers([buffer |-> tiles, overlays |-> <<>>, drawn |-> <<>>],
                     view, world, sortByY(world.players), 1)

MaxTileRenderSize == 2
MaxFrames == 2
MaxRenderTick == 45

\* the renderer's configurations and camera positions
Views ==
    {[widthTiles |-> side, heightTiles |-> side, tileRenderSize |-> size,
      cameraX |-> camera, cameraY |-> 0] :
        side \in {1, 2}, size \in 1..MaxTileRenderSize, camera \in {-1, 0}}

RenderIds == {LocalUser, "p2", "p3"}

\* what getPlayerSprite and the frame lookup give for a player: no sprite, a
\* sprite with no frame for the player's direction and animation frame, a
\* fully transparent frame, a frame in the player's own colour
SpriteKinds == {"none", "noframe", "clear", "opaque"}

\* a tile with nothing but its base pixels
StaticTile ==
    [isNull |-> FALSE, animated |-> FALSE, pixels |-> << <<"pixels">> >>,
     resolutions |-> [has |-> FALSE, grid |-> <<>>],
     animationFrames |-> [has |-> FALSE, list |-> <<>>],
     animationResolutions |-> [has |-> FALSE, list |-> <<>>]]

FrameNames == <<"frame0", "frame1", "frame2", "frame3">>
ResolutionNames == <<"res0", "res1", "res2", "res3">>

\* the tiles getTile answers: null, a static tile with or without a
\* precomputed resolution, and tiles with count animation frames of which the
\* first stored are precomputed at the selected resolution
WorldTiles ==
    {[StaticTile EXCEPT !.isNull = TRUE], StaticTile,
     [StaticTile EXCEPT !.resolutions = [has |-> TRUE,
                                         grid |-> << <<"resolution">> >>]]}
    \cup {[StaticTile EXCEPT
             !.animated = flagged,
             !.animationFrames =
                 [has |-> TRUE,
                  list |-> [i \in 1..count |-> << <<FrameNames[i]>> >>]],
             !.animationResolutions =
                 [has |-> precomputed,
                  list |-> [i \in 1..stored |-> << <<ResolutionNames[i]>> >>]]] :
            flagged \in BOOLEAN, precomputed \in BOOLEAN,
            count \in 1..MaxFrames, stored \in 0..MaxFrames}

\* one renderToBuffer call; earlier tells a render that another one follows
render(view, world, tickNo, earlier) ==
    LET out == renderToBuffer(view, world, tickNo)
    IN /\ pendingOverlays' = out.overlays
       /\ lastRender' = [op |-> "render", earlier |-> earlier, view |-> view,
                         world |-> world, tick |-> tickNo, buffer |-> out.buffer,
                         overlays |-> out.overlays, drawn |-> out.drawn,
                         stale |-> pendingOverlays]

\* a first frame of the session, with another player in view
RenderEarlier ==
    /\ lastRender = NoCall
    /\ \E view \in Views :
          render(view,
                 [tile |-> StaticTile, localId |-> LocalUser,
                  players |-> <<[userId |-> "p3", x |-> view.cameraX, y |-> 0]>>,
                  sprites |-> [id \in RenderIds |-> "opaque"]],
                 0, TRUE)
    /\ UNCHANGED <<lastTerrain, lastScale, objVars>>
    /\ UNCHANGED <<tileVars, predVars,
                   sessVars, reloadVars, asyncVars, brightVars, compVars>>

\* the frame after the first one: the other player has left, or another one
\* has come
RenderNext ==
    /\ lastRender.op = "render"
    /\ lastRender.earlier
    /\ \E list \in {<<>>, <<[userId |-> LocalUser, x |-> 0, y |-> 0]>>,
                    <<[userId |-> "p2", x |-> 0, y |-> 0]>>} :
          render(lastRender.view,
                 [tile |-> StaticTile, localId |-> LocalUser, players |-> list,
                  sprites |-> [id \in RenderIds |-> "opaque"]],
                 1, FALSE)
    /\ UNCHANGED <<lastTerrain, lastScale, objVars>>
    /\ UNCHANGED <<tileVars, predVars,
                   sessVars, reloadVars, asyncVars, brightVars, compVars>>

\* the players of a world: none, one, or two with different user ids, each
\* on, beside or above the viewport
PlayerLists2 ==
    LET positioned == {[userId |-> id, x |-> x, y |-> y] :
                          id \in RenderIds, x \in {-1, 0, 1}, y \in {-1, 0, 1}}
    IN {<<>>} \cup {<<a>> : a \in positioned}
       \cup {pair \in positioned \X positioned :
                <<pair[1].userId, pair[2].userId>>
                   \in {<<LocalUser, "p2">>, <<"p2", "p3">>}}

\* a frame over a static ground with any players
RenderPlayers ==
    /\ lastRender = NoCall
    /\ \E view \in Views, list \in PlayerLists2,
          kinds \in [{1, 2} -> SpriteKinds] :
          render(view,
                 [tile |-> StaticTile, localId |-> LocalUser, players |-> list,
                  sprites |-> [id \in RenderIds |->
                     IF \E i \in 1..Len(list) : list[i].userId = id
                     THEN kinds[CHOOSE i \in 1..Len(list) : list[i].userId = id]
                     ELSE "none"]],
                 0, FALSE)
    /\ UNCHANGED <<lastTerrain, lastScale, objVars>>
    /\ UNCHANGED <<tileVars, predVars,
                   sessVars, reloadVars, asyncVars, brightVars, compVars>>

\* a frame of any ground at any tick, with no player in the world
RenderGround ==
    /\ lastRender = NoCall
    /\ \E view \in {v \in Views : v.cameraX = 0}, tile \in WorldTiles,
          tickNo \in 0..MaxRenderTick :
          render(view,
                 [tile |-> tile, localId |-> LocalUser, players |-> <<>>,
                  sprites |-> [id \in RenderIds |-> "none"]],
                 tickNo, FALSE)
    /\ UNCHANGED <<lastTerrain, lastScale, objVars>>
    /\ UNCHANGED <<tileVars, predVars,
                   sessVars, reloadVars, asyncVars, brightVars, compVars>>

(***************************************************************************)
(* Tile objects (part_007: rotateGrid, TileProvider.getTile)               *)
(***************************************************************************)
\* the pixel grid every registered tile starts with
BasePixels == << <<"p00", "p01">>, <<"p10", "p11">> >>

\* base-tiles.js: the tile objects registered by id
BASE_TILES ==
    [id \in RegisteredTiles |->
        [id |-> id, animated |-> Animated(id), pixels |-> BasePixels]]

\* the same registry without the tiles of the ids in missing
Unregister(missing) == [id \in RegisteredTiles \ missing |-> BASE_TILES[id]]

\* registries getTile may run against: the full one, and the ones where one
\* terrain tile, or one terrain tile and the void tile, is not registered
Registries ==
    {BASE_TILES}
    \cup {Unregister({id}) : id \in RegisteredTiles \ {"void"}}
    \cup {Unregister({id, "void"}) : id \in RegisteredTiles \ {"void"}}

\* rotateGrid90(grid): row x of the result is column x of grid, read from
\* the last row up
rotateGrid90(grid) ==
    LET height == Len(grid)
        width  == IF height = 0 THEN 0 ELSE Len(grid[1])
    IN [x \in 1..width |-> [k \in 1..height |-> PixelAt(grid, height - k, x - 1)]]

\* rotateGrid(grid, rotations)
RECURSIVE rotateGrid(_, _)
rotateGrid(grid, rotations) ==
    IF rotations % 4 = 0 THEN grid
    ELSE rotateGrid90(rotateGrid(grid, (rotations % 4) - 1))

\* a tile getTile hands out: fromRegistry says that it is the registered
\* object itself, not a copy
TileObject(tile, fromRegistry) ==
    [isNull |-> FALSE, fromRegistry |-> fromRegistry, id |-> tile.id,
     animated |-> tile.animated, pixels |-> tile.pixels]
NullTile ==
    [isNull |-> TRUE, fromRegistry |-> FALSE, id |-> "", animated |-> FALSE,
     pixels |-> <<>>]

\* variant: an unregistered tile id gives null
voidFallback_null(registry) == NullTile

\* BASE_TILES.void ?? null
voidFallback(registry) ==
    IF "void" \in DOMAIN registry THEN TileObject(registry["void"], TRUE)
    ELSE NullTile

\* variant: the rotation is written into the registered tile, which is returned
getTileObject_inPlace(registry, tileId, rotation) ==
    IF tileId \notin DOMAIN registry
    THEN [tile |-> voidFallback(registry), registry |-> registry]
    ELSE LET baseTile == registry[tileId]
             turned   == [baseTile EXCEPT !.pixels = rotateGrid(@, rotation)]
         IN IF rotation = 0 \/ baseTile.animated
            THEN [tile |-> TileObject(baseTile, TRUE), registry |-> registry]
            ELSE [tile |-> TileObject(turned, TRUE),
                  registry |-> [registry EXCEPT ![tileId] = turned]]

\* getTile from the tile id on: the tile returned and the registry afterwards
getTileObject(registry, tileId, rotation) ==
    IF tileId \notin DOMAIN registry
    THEN [tile |-> voidFallback(registry), registry |-> registry]
    ELSE LET baseTile == registry[tileId]
         IN IF rotation = 0 \/ baseTile.animated
            THEN [tile |-> TileObject(baseTile, TRUE), registry |-> registry]
            ELSE [tile |-> TileObject([baseTile EXCEPT
                                          !.pixels = rotateGrid(@, rotation)],
                                      FALSE),
                  registry |-> registry]

\* getTile(tileX, tileY), with the tile object it returns
GetTileObject ==
    /\ \E at \in (XCoords \X YCoords) \cup FarTiles :
          LET x        == at[1]
              y        == at[2]
              chunk    == getChunkResult(chunkCache, ChunkOf(x), ChunkOf(y), now)
              tileId   == chunk.tiles[LocalOf(y)][LocalOf(x)]
              rotation == RotationTable[x][y]
              out      == getTileObject(baseTiles, tileId, rotation)
          IN /\ getTile(x, y, FALSE)
             /\ baseTiles' = out.registry
             /\ lastTile' = [op |-> "tile", x |-> x, y |-> y, tileId |-> tileId,
                             rotation |-> rotation, tile |-> out.tile,
                             before |-> baseTiles]
    /\ UNCHANGED lastDiff
    /\ UNCHANGED <<lastTerrain, lastScale, pendingOverlays, lastRender>>
    /\ UNCHANGED <<predVars, sessVars, reloadVars, asyncVars, brightVars, compVars>>

(***************************************************************************)
(* Terminal pixel encoder: the diff against the previous frame             *)
(***************************************************************************)
MaxFrameWidth == 2

CellValues == {"a", "b"}

\* the cell grids of one or two rows
CellFrames ==
    UNION {[1..height -> [1..width -> CellValues]] :
              height \in {1, 2}, width \in 1..MaxFrameWidth}

\* the cell positions of a frame, row by row
RECURSIVE CellsFrom(_, _, _)
CellsFrom(frame, y, x) ==
    IF y > Len(frame) THEN <<>>
    ELSE IF x > Len(frame[y]) THEN CellsFrom(frame, y + 1, 1)
    ELSE <<[y |-> y, x |-> x]>> \o CellsFrom(frame, y, x + 1)

SameSize(a, b) == Len(a) = Len(b) /\ Len(a[1]) = Len(b[1])

\* variant: a changed cell in the last column is not emitted
encodeDiff_dropsLastColumn(cells, previous) ==
    IF ~previous.has \/ ~SameSize(cells, previous.grid)
    THEN [full |-> TRUE,
          writes |-> [i \in 1..Len(CellsFrom(cells, 1, 1)) |->
                         LET at == CellsFrom(cells, 1, 1)[i]
                         IN [y |-> at.y, x |-> at.x, cell |-> cells[at.y][at.x]]]]
    ELSE LET changed == SelectSeq(CellsFrom(cells, 1, 1),
                           LAMBDA at : /\ cells[at.y][at.x] # previous.grid[at.y][at.x]
                                       /\ (at.x < Len(cells[1]) \/ Len(cells[1]) = 1))
         IN [full |-> FALSE,
             writes |-> [i \in 1..Len(changed) |->
                            [y |-> changed[i].y, x |-> changed[i].x,
                             cell |-> cells[changed[i].y][changed[i].x]]]]

\* the encoder's output for cells against the previous frame: every cell when
\* there is no previous frame or its size differs, the changed cells otherwise
encodeDiff(cells, previous) ==
    IF ~previous.has \/ ~SameSize(cells, previous.grid)
    THEN [full |-> TRUE,
          writes |-> [i \in 1..Len(CellsFrom(cells, 1, 1)) |->
                         LET at == CellsFrom(cells, 1, 1)[i]
                         IN [y |-> at.y, x |-> at.x, cell |-> cells[at.y][at.x]]]]
    ELSE LET changed == SelectSeq(CellsFrom(cells, 1, 1),
                           LAMBDA at : cells[at.y][at.x] # previous.grid[at.y][at.x])
         IN [full |-> FALSE,
             writes |-> [i \in 1..Len(changed) |->
                            [y |-> changed[i].y, x |-> changed[i].x,
                             cell |-> cells[changed[i].y][changed[i].x]]]]

\* a terminal that is sent the output: a full emission starts from a cleared
\* screen of the frame's size, a diff from what the terminal shows
RECURSIVE writeCells(_, _, _)
writeCells(shown, writes, i) ==
    IF i > Len(writes) THEN shown
    ELSE writeCells([shown EXCEPT ![writes[i].y][writes[i].x] = writes[i].cell],
                    writes, i + 1)

applyDiff(shown, output, height, width) ==
    writeCells(IF output.full
               THEN [y \in 1..height |-> [x \in 1..width |-> "blank"]]
               ELSE shown,
               output.writes, 1)

\* one frame encoded against no frame, a frame of its size, or a frame of
\* one row and one column
EncodeFrame ==
    /\ lastDiff = NoCall
    /\ \E cells \in CellFrames :
          \E previous \in
                {[has |-> FALSE, grid |-> <<>>]}
                \cup {[has |-> TRUE, grid |-> g] :
                         g \in {f \in CellFrames :
                                   \/ SameSize(f, cells)
                                   \/ Len(f) = 1 /\ Len(f[1]) = 1}} :
             LET output == encodeDiff(cells, previous)
             IN lastDiff' = [op |-> "diff", cells |-> cells, previous |-> previous,
                             output |-> output,
                             shown |-> applyDiff(previous.grid, output, Len(cells),
                                                 Len(cells[1]))]
    /\ UNCHANGED <<baseTiles, lastTile>>
    /\ UNCHANGED <<lastTerrain, lastScale, pendingOverlays, lastRender>>
    /\ UNCHANGED <<tileVars, predVars,
                   sessVars, reloadVars, asyncVars, brightVars, compVars>>

(***************************************************************************)
(* WorkerManager: hot reload and the connected sessions                    *)
(***************************************************************************)
SessionUsers == {"u1", "u2", "u3"}
SessionIds == {"s1", "s2"}

\* Map.set(userId, session) and Map.delete(userId) on the set of the values
WithoutUser(sessions, userId) == {e \in sessions : e.userId # userId}
WithSession(sessions, session) ==
    WithoutUser(sessions, session.userId) \cup {session}

\* what a hot reload step leaves alone in the session
sessRest == <<sessPc, destroyed, tickInterval, renderer, playerX, lastQueryX,
              tickCounter, cachedVisiblePlayers, ticks, requestIdCounter,
              pendingRequests, workerInbox, streamLog, timerVars, viewVars>>

\* hotReload: player_connect for every connected session
RECURSIVE reRegister(_, _)
reRegister(sessions, registered) ==
    IF sessions = {} THEN registered
    ELSE LET session == CHOOSE e \in sessions : TRUE
         IN reRegister(sessions \ {session}, WithSession(registered, session))

\* hotReload() up to the 100 ms delay: the subscribers are told, the worker
\* is killed
HotReload ==
    /\ reloadPc = "idle"
    /\ reloadState' = "reloading"
    /\ reloadLog' = <<"reloading">>
    /\ workerReady' = FALSE
    /\ worker' = 0
    /\ workerPlayers' = {}
    /\ reloadPc' = "delay"
    /\ UNCHANGED connectedSessions
    /\ UNCHANGED <<tileVars, predVars,
                   sessRest, asyncVars, brightVars, compVars, drawVars>>

\* after the delay: spawnWorker() forks the next process and waits for it
SpawnFresh ==
    /\ reloadPc = "delay"
    /\ worker' = 1
    /\ workerPlayers' = {}
    /\ reloadPc' = "spawning"
    /\ UNCHANGED <<connectedSessions, reloadLog, reloadState, workerReady>>
    /\ UNCHANGED <<tileVars, predVars,
                   sessRest, asyncVars, brightVars, compVars, drawVars>>

\* the fresh worker reports 'ready': the sessions are registered with it and
\* the subscribers are told
SpawnReady ==
    /\ reloadPc = "spawning"
    /\ workerReady' = TRUE
    /\ workerPlayers' = reRegister(connectedSessions, workerPlayers)
    /\ reloadState' = "running"
    /\ reloadLog' = Append(reloadLog, "running")
    /\ reloadPc' = "idle"
    /\ UNCHANGED <<worker, connectedSessions>>
    /\ UNCHANGED <<tileVars, predVars,
                   sessRest, asyncVars, brightVars, compVars, drawVars>>

\* the fresh worker fails to start (error or no 'ready' in 10 s): the catch
\* block spawns another one
SpawnFails ==
    /\ reloadPc = "spawning"
    /\ worker' = 1
    /\ workerPlayers' = {}
    /\ reloadPc' = "recovering"
    /\ UNCHANGED <<connectedSessions, reloadLog, reloadState, workerReady>>
    /\ UNCHANGED <<tileVars, predVars,
                   sessRest, asyncVars, brightVars, compVars, drawVars>>

\* the recovery worker reports 'ready': the subscribers are told
RecoveryReady ==
    /\ reloadPc = "recovering"
    /\ workerReady' = TRUE
    /\ reloadState' = "running"
    /\ reloadLog' = Append(reloadLog, "running")
    /\ reloadPc' = "idle"
    /\ UNCHANGED <<worker, connectedSessions, workerPlayers>>
    /\ UNCHANGED <<tileVars, predVars,
                   sessRest, asyncVars, brightVars, compVars, drawVars>>

\* the recovery worker fails too: hotReload() rejects
RecoveryFails ==
    /\ reloadPc = "recovering"
    /\ reloadPc' = "failed"
    /\ UNCHANGED <<worker, connectedSessions, workerPlayers, reloadLog,
                   reloadState, workerReady>>
    /\ UNCHANGED <<tileVars, predVars,
                   sessRest, asyncVars, brightVars, compVars, drawVars>>

\* playerConnect(userId, sessionId, username)
PlayerConnect ==
    /\ \E userId \in SessionUsers, sessionId \in SessionIds :
          LET session == [userId |-> userId, sessionId |-> sessionId]
          IN /\ connectedSessions' = WithSession(connectedSessions, session)
             /\ workerPlayers' = IF isReady /\ worker # 0
                                 THEN WithSession(workerPlayers, session)
                                 ELSE workerPlayers
    /\ UNCHANGED <<worker, reloadPc, reloadLog, reloadState, workerReady>>
    /\ UNCHANGED <<tileVars, predVars,
                   sessRest, asyncVars, brightVars, compVars, drawVars>>

\* playerDisconnect(userId)
PlayerDisconnect ==
    /\ \E userId \in SessionUsers :
          /\ connectedSessions' = WithoutUser(connectedSessions, userId)
          /\ workerPlayers' = IF worker # 0
                              THEN WithoutUser(workerPlayers, userId)
                              ELSE workerPlayers
    /\ UNCHANGED <<worker, reloadPc, reloadLog, reloadState, workerReady>>
    /\ UNCHANGED <<tileVars, predVars,
                   sessRest, asyncVars, brightVars, compVars, drawVars>>

(***************************************************************************)
(* GameSession: the player list modal                                      *)
(***************************************************************************)
\* ComponentManager.getInputMode()
getInputMode(stack) ==
    IF stack = <<>> THEN "game"
    ELSE IF isModal(getFocusedComponent(stack)) THEN "dialog" ELSE "game"

\* togglePlayerList after the await: setPlayers and pushFocus(playerListModal)
pushPlayerList == pushFocus(PlayerList)

\* the toggle_players key while the input mode is 'game': togglePlayerList()
\* up to its await, or to its end when nothing is awaited
PressTogglePlayers ==
    /\ sessPc # "constructed"
    /\ ~destroyed
    /\ ~inputPaused
    /\ requestIdCounter < MaxRequests
    /\ getInputMode(focusStack) = "game"
    /\ IF isVisible[PlayerList]
       THEN /\ LET after == popFocus(state, isVisible, focusStack)
               IN /\ state' = after.state
                  /\ isVisible' = after.isVisible
                  /\ focusStack' = after.focusStack
            /\ streamLog' = [op |-> "playerList", settled |-> TRUE]
            /\ UNCHANGED <<toggles, requestIdCounter, pendingRequests, workerInbox>>
       ELSE IF ~isReady
       THEN /\ pushPlayerList
            /\ streamLog' = [op |-> "playerList", settled |-> TRUE]
            /\ UNCHANGED <<toggles, requestIdCounter, pendingRequests, workerInbox>>
       ELSE /\ sendRequest(requestIdCounter + 1)
            /\ toggles' = toggles \cup {requestIdCounter + 1}
            /\ streamLog' = [op |-> "playerList", settled |-> FALSE]
            /\ UNCHANGED <<focusStack, isVisible, state>>
    /\ lastCall' = [op |-> "togglePlayerList"]
    /\ UNCHANGED rootComponents
    /\ UNCHANGED <<sessPc, destroyed, tickInterval, renderer, playerX, lastQueryX,
                   tickCounter, cachedVisiblePlayers, ticks, reloadState,
                   workerReady>>
    /\ UNCHANGED <<tileVars, predVars,
                   reloadVars, asyncVars, brightVars, drawVars>>
    /\ UNCHANGED <<timerVars, players>>

\* the worker answers a get_all_players request: the suspended
\* togglePlayerList() goes on and pushes the modal
PlayersAnswer ==
    /\ \E requestId \in workerInbox \cap toggles, list \in PlayerLists :
          /\ workerInbox' = workerInbox \ {requestId}
          /\ handleWorkerMessage(requestId, list)
          /\ IF requestId \in pendingRequests
             THEN pushPlayerList
             ELSE UNCHANGED <<focusStack, isVisible, state>>
    /\ lastCall' = [op |-> "playersAnswer"]
    /\ UNCHANGED rootComponents
    /\ UNCHANGED <<sessPc, destroyed, tickInterval, renderer, playerX, tickCounter,
                   reloadState, workerReady, requestIdCounter>>
    /\ UNCHANGED <<tileVars, predVars,
                   reloadVars, asyncVars, brightVars, drawVars>>
    /\ UNCHANGED timerVars

\* the Escape key while the input mode is 'dialog': the focused modal asks to
\* be closed and the session's callback pops the stack
PressEscape ==
    /\ sessPc # "constructed"
    /\ ~destroyed
    /\ ~inputPaused
    /\ getInputMode(focusStack) = "dialog"
    /\ handleInput("Escape")
    /\ UNCHANGED rootComponents
    /\ UNCHANGED <<tileVars, predVars,
                   sessVars, reloadVars, asyncVars, brightVars, drawVars>>

(***************************************************************************)
(* GameSession: loading the sprites of the other players                   *)
(***************************************************************************)
\* the remote players a session can see
SpriteIds == {"p2", "p3"}
\* the longest cachedVisiblePlayers a tick goes through
MaxVisible == 2
\* the loads of handleSpriteReload in flight for one player
MaxReloadLoads == 1
VisibleLists == UNION {[1..n -> SpriteIds] : n \in 0..MaxVisible}

SpriteInit ==
    /\ sprites = [id \in SpriteIds |-> "none"]
    /\ loadingSprites = {}
    /\ tickLoads = [id \in SpriteIds |-> 0]
    /\ reloadLoads = [id \in SpriteIds |-> 0]
    /\ lastSprite = [op |-> "none"]

\* tick(): the test of a visible player for a sprite to load
isMissing(spr, loading, id) == spr[id] = "none" /\ id \notin loading

\* tick(): the loop over cachedVisiblePlayers, which stores a placeholder for
\* each player without a sprite and collects its id
RECURSIVE collectMissing(_, _, _, _)
collectMissing(list, spr, loading, missing) ==
    IF list = <<>> THEN [sprites |-> spr, missing |-> missing]
    ELSE IF isMissing(spr, loading, Head(list))
         THEN collectMissing(Tail(list),
                             [spr EXCEPT ![Head(list)] = "placeholder"],
                             loading, Append(missing, Head(list)))
         ELSE collectMissing(Tail(list), spr, loading, missing)

\* the number of times id is in list
RECURSIVE countOf(_, _)
countOf(list, id) ==
    IF list = <<>> THEN 0
    ELSE (IF Head(list) = id THEN 1 ELSE 0) + countOf(Tail(list), id)

\* variant: the id stays in the loading set when its load has finished
loadFinished_keepsId(loading, id) == loading

\* batchLoadPlayerSprites: the finally of one player's load
loadFinished(loading, id) == loading \ {id}

\* tick() after its await: the players loop, loadingSprites.add and the call
\* of batchLoadPlayerSprites, which starts one load for each missing id
TickSprites ==
    /\ sessPc = "running"
    /\ tickInterval
    /\ \E visible \in VisibleLists :
          LET out == collectMissing(visible, sprites, loadingSprites, <<>>)
          IN /\ sprites' = out.sprites
             /\ loadingSprites' = loadingSprites \cup UserIds(out.missing)
             /\ tickLoads' = [id \in SpriteIds |->
                                tickLoads[id] + countOf(out.missing, id)]
             /\ lastSprite' = [op |-> "tick", visible |-> visible,
                               missing |-> out.missing,
                               before |-> tickLoads]
    /\ UNCHANGED reloadLoads
    /\ UNCHANGED <<procVars, serveVars, gridVars, screenVars>>
    /\ UNCHANGED <<tileVars, predVars, sessVars, reloadVars, brightVars,
                   compVars, drawVars>>

\* batchLoadPlayerSprites: one player's load finishes with a sprite from the
\* disk or the database ("loaded"), with none ("absent") or by throwing
\* ("failed")
LoadFinishes ==
    /\ \E id \in SpriteIds, outcome \in {"loaded", "absent", "failed"} :
          /\ tickLoads[id] > 0
          /\ sprites' = IF outcome = "loaded" /\ ~destroyed
                        THEN [sprites EXCEPT ![id] = "loaded"]
                        ELSE sprites
          /\ loadingSprites' = loadFinished(loadingSprites, id)
          /\ tickLoads' = [tickLoads EXCEPT ![id] = @ - 1]
          /\ lastSprite' = [op |-> "finished", id |-> id, outcome |-> outcome]
    /\ UNCHANGED reloadLoads
    /\ UNCHANGED <<procVars, serveVars, gridVars, screenVars>>
    /\ UNCHANGED <<tileVars, predVars, sessVars, reloadVars, brightVars,
                   compVars, drawVars>>

\* handleSpriteReload up to its first await: the placeholder replaces the
\* player's sprite and a load starts, whatever loadingSprites holds
SpriteReload ==
    /\ sessPc = "running"
    /\ \E id \in SpriteIds :
          /\ reloadLoads[id] < MaxReloadLoads
          /\ sprites' = [sprites EXCEPT ![id] = "placeholder"]
          /\ reloadLoads' = [reloadLoads EXCEPT ![id] = @ + 1]
          /\ lastSprite' = [op |-> "reload", id |-> id]
    /\ UNCHANGED <<loadingSprites, tickLoads>>
    /\ UNCHANGED <<procVars, serveVars, gridVars, screenVars>>
    /\ UNCHANGED <<tileVars, predVars, sessVars, reloadVars, brightVars,
                   compVars, drawVars>>

\* handleSpriteReload after its awaits
SpriteReloadFinishes ==
    /\ \E id \in SpriteIds, outcome \in {"loaded", "absent", "failed"} :
          /\ reloadLoads[id] > 0
          /\ sprites' = IF outcome = "loaded"
                        THEN [sprites EXCEPT ![id] = "loaded"]
                        ELSE sprites
          /\ reloadLoads' = [reloadLoads EXCEPT ![id] = @ - 1]
          /\ lastSprite' = [op |-> "reloaded", id |-> id, outcome |-> outcome]
    /\ UNCHANGED <<loadingSprites, tickLoads>>
    /\ UNCHANGED <<procVars, serveVars, gridVars, screenVars>>
    /\ UNCHANGED <<tileVars, predVars, sessVars, reloadVars, brightVars,
                   compVars, drawVars>>

(***************************************************************************)
(* WorkerManager: the worker processes and their 'exit' events             *)
(***************************************************************************)
\* the processes forked in one run
MaxWorkers == 3
Pids == 1..MaxWorkers
\* the exit code the 'exit' handler compares with 0; a signal gives null
ExitCodes == {"zero", "other"}

ProcInit ==
    /\ processes = [pid \in Pids |-> IF pid = 1 THEN "ready" ELSE "unborn"]
    /\ workerPid = 1
    /\ awaitedPid = 0
    /\ restartTimers = 0
    /\ lastExit = [op |-> "none"]

forked == {pid \in Pids : processes[pid] # "unborn"}
alive(pid) == processes[pid] \in {"starting", "ready"}

\* spawnWorker() up to the return of its promise: fork() and the handlers
fork(procs) ==
    /\ Cardinality(forked) < MaxWorkers
    /\ LET pid == Cardinality(forked) + 1
       IN /\ processes' = [procs EXCEPT ![pid] = "starting"]
          /\ workerPid' = pid
    /\ worker' = 1

\* spawnWorker: the 'exit' handler of the process pid
onExit(pid, code) ==
    /\ workerReady' = FALSE
    /\ restartTimers' = IF reloadState = "running" /\ code # "zero"
                        THEN restartTimers + 1 ELSE restartTimers

\* hotReload() up to the 100 ms delay, with the process it kills
ReloadKill ==
    /\ reloadPc = "idle"
    /\ reloadState' = "reloading"
    /\ reloadLog' = <<"reloading">>
    /\ IF workerPid # 0
       THEN /\ processes' = [processes EXCEPT ![workerPid] =
                                IF alive(workerPid) THEN "dying" ELSE @]
            /\ workerPid' = 0
            /\ worker' = 0
            /\ workerReady' = FALSE
       ELSE UNCHANGED <<processes, workerPid, worker, workerReady>>
    /\ reloadPc' = "delay"
    /\ UNCHANGED <<awaitedPid, restartTimers, lastExit>>
    /\ UNCHANGED <<connectedSessions, workerPlayers, spriteVars, serveVars,
                   gridVars, screenVars>>
    /\ UNCHANGED <<tileVars, predVars, sessRest, brightVars, compVars, drawVars>>

\* hotReload() after the delay: spawnWorker() and the wait for its promise
ReloadSpawn ==
    /\ reloadPc = "delay"
    /\ fork(processes)
    /\ awaitedPid' = workerPid'
    /\ reloadPc' = "spawning"
    /\ UNCHANGED <<restartTimers, lastExit, reloadLog, reloadState, workerReady>>
    /\ UNCHANGED <<connectedSessions, workerPlayers, spriteVars, serveVars,
                   gridVars, screenVars>>
    /\ UNCHANGED <<tileVars, predVars, sessRest, brightVars, compVars, drawVars>>

\* the awaited process does not report 'ready' in 10 s: the catch block of
\* hotReload() calls spawnWorker() again
ReloadSpawnTimesOut ==
    /\ reloadPc = "spawning"
    /\ fork(processes)
    /\ awaitedPid' = workerPid'
    /\ reloadPc' = "recovering"
    /\ UNCHANGED <<restartTimers, lastExit, reloadLog, reloadState, workerReady>>
    /\ UNCHANGED <<connectedSessions, workerPlayers, spriteVars, serveVars,
                   gridVars, screenVars>>
    /\ UNCHANGED <<tileVars, predVars, sessRest, brightVars, compVars, drawVars>>

\* a starting process reports 'ready': onReady sets workerReady, and the
\* hotReload() that awaits this process goes on to its end
ProcessReady ==
    /\ \E pid \in Pids :
          /\ processes[pid] = "starting"
          /\ processes' = [processes EXCEPT ![pid] = "ready"]
          /\ workerReady' = TRUE
          /\ IF pid = awaitedPid /\ reloadPc \in {"spawning", "recovering"}
             THEN /\ reloadState' = "running"
                  /\ reloadLog' = Append(reloadLog, "running")
                  /\ reloadPc' = "idle"
                  /\ awaitedPid' = 0
             ELSE UNCHANGED <<reloadState, reloadLog, reloadPc, awaitedPid>>
    /\ UNCHANGED <<worker, workerPid, restartTimers, lastExit>>
    /\ UNCHANGED <<connectedSessions, workerPlayers, spriteVars, serveVars,
                   gridVars, screenVars>>
    /\ UNCHANGED <<tileVars, predVars, sessRest, brightVars, compVars, drawVars>>

\* a process ends on its own
ProcessCrashes ==
    /\ \E pid \in Pids :
          /\ alive(pid)
          /\ processes' = [processes EXCEPT ![pid] = "dying"]
    /\ UNCHANGED <<worker, workerPid, awaitedPid, restartTimers, lastExit,
                   reloadPc, reloadLog, reloadState, workerReady>>
    /\ UNCHANGED <<connectedSessions, workerPlayers, spriteVars, serveVars,
                   gridVars, screenVars>>
    /\ UNCHANGED <<tileVars, predVars, sessRest, brightVars, compVars, drawVars>>

\* the 'exit' event of a process that has ended
ProcessExit ==
    /\ \E pid \in Pids, code \in ExitCodes :
          /\ processes[pid] = "dying"
          /\ processes' = [processes EXCEPT ![pid] = "gone"]
          /\ onExit(pid, code)
          /\ lastExit' = [op |-> "exit", pid |-> pid, code |-> code,
                          current |-> workerPid]
    /\ UNCHANGED <<worker, workerPid, awaitedPid, reloadPc, reloadLog, reloadState>>
    /\ UNCHANGED <<connectedSessions, workerPlayers, spriteVars, serveVars,
                   gridVars, screenVars>>
    /\ UNCHANGED <<tileVars, predVars, sessRest, brightVars, compVars, drawVars>>

\* a timer of the 'exit' handler fires: spawnWorker()
RestartTimerFires ==
    /\ restartTimers > 0
    /\ restartTimers' = restartTimers - 1
    /\ fork(processes)
    /\ UNCHANGED <<awaitedPid, lastExit, reloadPc, reloadLog, reloadState,
                   workerReady>>
    /\ UNCHANGED <<connectedSessions, workerPlayers, spriteVars, serveVars,
                   gridVars, screenVars>>
    /\ UNCHANGED <<tileVars, predVars, sessRest, brightVars, compVars, drawVars>>

(***************************************************************************)
(* Serving a prediction to the terminal                                    *)
(***************************************************************************)
RenderModes == {"normal", "halfblock"}
Scenes == [other : {0, 1}, tick : {0, 1}, mode : RenderModes]

ServeInit ==
    /\ scene = [other |-> 0, tick |-> 0, mode |-> "normal"]
    /\ shownFrame = <<>>
    /\ lastServe = [op |-> "none"]

\* the terminal after it is sent the output of a prediction
applyPrediction(shown, output) ==
    IF output = <<>> THEN shown
    ELSE applyDiff(shown, encodeDiff(output[3], [has |-> TRUE, grid |-> output[2]]),
                   Len(shown), Len(shown[1]))

\* the terminal after the frame of (x, y, dir) is rendered and its diff
\* against the frame shown is sent
computeNormally(shown, x, y, dir) ==
    applyDiff(shown, encodeDiff(renderFrame(x, y, dir),
                                [has |-> TRUE, grid |-> shown]),
              Len(shown), Len(shown[1]))

\* a frame is rendered and sent, and the predictions are rendered against it
RenderAndPredict ==
    /\ \E x \in PredXs, y \in PredYs, d \in Directions :
          /\ shownFrame' = renderFrame(x, y, d)
          /\ preRenderPredictions(x, y, d, renderFrame(x, y, d))
    /\ lastServe' = [op |-> "none"]
    /\ UNCHANGED scene
    /\ UNCHANGED <<enabled, movementHistory, continueProbability, stopProbability,
                   turnProbability>>
    /\ UNCHANGED <<spriteVars, procVars, gridVars, screenVars>>
    /\ UNCHANGED <<tileVars, sessVars, brightVars, compVars, drawVars, reloadVars>>

\* another player moves, the animation tick advances or the render mode is
\* switched
SceneChanges ==
    /\ \E next \in Scenes :
          /\ next # scene
          /\ scene' = next
    /\ UNCHANGED <<shownFrame, lastServe>>
    /\ UNCHANGED <<spriteVars, procVars, gridVars, screenVars>>
    /\ UNCHANGED <<tileVars, predVars, sessVars, brightVars, compVars, drawVars,
                   reloadVars>>

\* the player's next state after a render is looked up: a hit is sent as
\* stored, a miss is computed
ServePrediction ==
    /\ lastPred.op = "preRender"
    /\ \E x \in PredXs, y \in 0..(MaxPredY + 1), d \in Directions :
          /\ checkPrediction(x, y, d)
          /\ LET result == lastPred'.result
                 normal == computeNormally(shownFrame, x, y, d)
             IN /\ shownFrame' = IF result = NoCall THEN normal
                                 ELSE applyPrediction(shownFrame, result.output)
                /\ lastServe' = [op |-> IF result = NoCall THEN "miss" ELSE "hit",
                                 normal |-> normal, scene |-> scene]
    /\ UNCHANGED scene
    /\ UNCHANGED <<enabled, movementHistory, continueProbability, stopProbability,
                   turnProbability>>
    /\ UNCHANGED <<spriteVars, procVars, gridVars, screenVars>>
    /\ UNCHANGED <<tileVars, sessVars, brightVars, compVars, drawVars, reloadVars>>

(***************************************************************************)
(* BrightnessVariantCache: the grids behind the keys                       *)
(***************************************************************************)
\* a pixel is <<r, g, b>>, or <<>> for null
OpaquePixel == <<200, 100, 240>>
\* a tile's grid and the same grid rotated by 180 degrees
TileGrids == {<< <<OpaquePixel, <<>>>> >>, << <<<<>>, OpaquePixel>> >>}

GridInit ==
    /\ storedGrids = <<>>
    /\ lastGrid = [op |-> "none"]

clamp255(n) == IF n > 255 THEN 255 ELSE IF n < 0 THEN 0 ELSE n

\* applyBrightnessToColor(color, brightness), brightness in thousandths
applyBrightnessToColor(color, level) ==
    [c \in 1..3 |-> clamp255((color[c] * level + 500) \div 1000)]

\* applyBrightnessToGrid(grid, brightness)
applyBrightnessToGrid(grid, level) ==
    IF level = 1000 THEN grid
    ELSE [y \in 1..Len(grid) |->
            [x \in 1..Len(grid[y]) |->
               IF grid[y][x] = <<>> THEN <<>>
               ELSE applyBrightnessToColor(grid[y][x], level)]]

\* get(id, grid, brightness) with the grids: what it returns and what the
\* cache holds afterwards
GetGrid ==
    /\ \E id \in VariantIds, grid \in TileGrids,
          brightness \in BrightnessRequests :
          LET quantized == QuantizeTable[brightness]
              key       == cacheKey(id, quantized)
              variant   == applyBrightnessToGrid(grid, quantized)
          IN /\ get(id, brightness)
             /\ storedGrids' = [k \in variants' |->
                                  IF k \in variants THEN storedGrids[k]
                                  ELSE variant]
             /\ lastGrid' = [op |-> "get", id |-> id, grid |-> grid,
                             level |-> quantized,
                             hit |-> quantized # 1000 /\ key \in variants,
                             result |-> IF quantized = 1000 THEN grid
                                        ELSE IF key \in variants
                                        THEN storedGrids[key]
                                        ELSE variant]
    /\ UNCHANGED <<lastQuantize, maxSize>>
    /\ UNCHANGED <<spriteVars, procVars, serveVars, screenVars>>
    /\ UNCHANGED <<tileVars, predVars, sessVars, reloadVars, compVars, drawVars>>

\* pregenerate(id, grid) with the grids
PregenerateGrid ==
    /\ \E id \in PregenerateIds, grid \in TileGrids :
          /\ pregenerate(id)
          /\ storedGrids' = [k \in variants' |->
                               IF k \in variants THEN storedGrids[k]
                               ELSE applyBrightnessToGrid(grid, k[2] * 10)]
    /\ UNCHANGED lastGrid
    /\ UNCHANGED <<lastQuantize, maxSize>>
    /\ UNCHANGED <<spriteVars, procVars, serveVars, screenVars>>
    /\ UNCHANGED <<tileVars, predVars, sessVars, reloadVars, compVars, drawVars>>

(***************************************************************************)
(* BuildingScreen (src/unnamed/part_009)                                   *)
(***************************************************************************)
\* the characters typed into the prompt
MaxInput == 2
\* SPINNER_FRAMES.length
SpinnerFrames == 4
\* progressTotal
ProgressSteps == 3

\* the screen after run() has set it up and drawn it
ScreenInit ==
    /\ screenState = "input"
    /\ screenDestroyed = FALSE
    /\ inputBuffer = 0
    /\ isGenerating = FALSE
    /\ spinnerInterval = FALSE
    /\ generation = FALSE
    /\ spinnerFrame = 0
    /\ progressCurrent = 0
    /\ lastWrite = [op |-> "write", by |-> "run", destroyed |-> FALSE]
AsyncInit == SpriteInit /\ ProcInit /\ ServeInit /\ GridInit /\ ScreenInit

\* stream.write by one of the screen's methods
write(by) == lastWrite' = [op |-> "write", by |-> by, destroyed |-> screenDestroyed]

screenFrame ==
    /\ UNCHANGED <<spriteVars, procVars, serveVars, gridVars>>
    /\ UNCHANGED <<tileVars, predVars, sessVars, brightVars, compVars, drawVars,
                   reloadVars>>

\* cleanup(): destroyed, stopSpinner, leave the alternate screen
cleanup ==
    /\ screenDestroyed' = TRUE
    /\ spinnerInterval' = FALSE
    /\ write("cleanup")

\* onData: a printable character or a backspace while the state is 'input'
EditPrompt ==
    /\ ~screenDestroyed
    /\ screenState = "input"
    /\ \E length \in {inputBuffer - 1, inputBuffer + 1} :
          /\ length \in 0..MaxInput
          /\ inputBuffer' = length
    /\ write("renderInputOnly")
    /\ UNCHANGED <<screenState, screenDestroyed, isGenerating, spinnerInterval,
                   generation, spinnerFrame, progressCurrent>>
    /\ screenFrame

\* onData: Enter on a prompt that is not empty: startGeneration() up to its
\* await, or to its end when no API key is configured
StartGeneration ==
    /\ ~screenDestroyed
    /\ screenState = "input"
    /\ inputBuffer > 0
    /\ ~isGenerating
    /\ \E hasKey \in BOOLEAN :
          IF hasKey
          THEN /\ isGenerating' = TRUE
               /\ screenState' = "generating"
               /\ spinnerInterval' = TRUE
               /\ spinnerFrame' = 0
               /\ generation' = TRUE
          ELSE /\ isGenerating' = FALSE
               /\ screenState' = "error"
               /\ spinnerInterval' = FALSE
               /\ spinnerFrame' = 0
               /\ generation' = FALSE
    /\ write("render")
    /\ UNCHANGED <<screenDestroyed, inputBuffer, progressCurrent>>
    /\ screenFrame

\* the spinner's interval fires
SpinnerFires ==
    /\ spinnerInterval
    /\ spinnerFrame' = (spinnerFrame + 1) % SpinnerFrames
    /\ IF screenState = "generating"
       THEN write("renderSpinnerOnly")
       ELSE UNCHANGED lastWrite
    /\ UNCHANGED <<screenState, screenDestroyed, inputBuffer, isGenerating,
                   spinnerInterval, generation, progressCurrent>>
    /\ screenFrame

\* the generation reports progress: onProgress
GenerationProgress ==
    /\ generation
    /\ \E current \in 1..ProgressSteps : progressCurrent' = current
    /\ write("renderGeneratingState")
    /\ UNCHANGED <<screenState, screenDestroyed, inputBuffer, isGenerating,
                   spinnerInterval, generation, spinnerFrame>>
    /\ screenFrame

\* the generation is over: startGeneration() after its await
GenerationEnds ==
    /\ generation
    /\ generation' = FALSE
    /\ spinnerInterval' = FALSE
    /\ isGenerating' = FALSE
    /\ \E outcome \in {"preview", "error"} : screenState' = outcome
    /\ write("render")
    /\ UNCHANGED <<screenDestroyed, inputBuffer, spinnerFrame, progressCurrent>>
    /\ screenFrame

\* onData: 'r' while the state is 'error'
Retry ==
    /\ ~screenDestroyed
    /\ screenState = "error"
    /\ screenState' = "input"
    /\ write("render")
    /\ UNCHANGED <<screenDestroyed, inputBuffer, isGenerating, spinnerInterval,
                   generation, spinnerFrame, progressCurrent>>
    /\ screenFrame

\* onData: ESC or Ctrl+C in any state, or Enter while the state is 'preview'
LeaveScreen ==
    /\ ~screenDestroyed
    /\ cleanup
    /\ UNCHANGED <<screenState, inputBuffer, isGenerating, generation,
                   spinnerFrame, progressCurrent>>
    /\ screenFrame

(***************************************************************************)
(* Initial states and specifications                                       *)
(***************************************************************************)
TileInit(caps) ==
    /\ now = 0
    /\ maxChunks \in caps
    /\ chunkCache = <<>>
    /\ recency = <<>>
    /\ lastGet = NoCall
    /\ probe = NoCall
    /\ lastEvict = NoCall

PredInit ==
    /\ enabled = FALSE
    /\ movementHistory = <<>>
    /\ continueProbability = DefaultContinue
    /\ stopProbability = DefaultStop
    /\ turnProbability = DefaultTurn
    /\ predictions = {}
    /\ lastPred = NoCall

SessInit ==
    /\ sessPc = "constructed"
    /\ destroyed = FALSE
    /\ tickInterval = FALSE
    /\ renderer = "null"
    /\ playerX = 0
    /\ lastQueryX = NeverQueried
    /\ tickCounter = 0
    /\ cachedVisiblePlayers = <<>>
    /\ ticks = {}
    /\ reloadState = "running"
    /\ workerReady = TRUE
    /\ requestIdCounter = 0
    /\ pendingRequests = {}
    /\ workerInbox = {}
    /\ streamLog = NoCall
    /\ moveTimer = FALSE
    /\ inputPaused = FALSE
    /\ screenPc = "none"
    /\ currentTickMs = 67
    /\ intervalSetBy = "none"
    /\ toggles = {}
    /\ players = {}

BrightInit(sizes) ==
    /\ lastQuantize = NoCall
    /\ variants = {}
    /\ accessOrder = <<>>
    /\ maxSize \in sizes
    /\ useOrder = <<>>
    /\ lastVariant = NoCall

CompInit ==
    /\ state = [c \in SessionComponents |->
                   IF c = PlayerList THEN "mounted" ELSE "unmounted"]
    /\ isVisible = [c \in SessionComponents |-> FALSE]
    /\ rootComponents = <<>>
    /\ focusStack = <<>>
    /\ lastCall = NoCall

DrawInit(registries) ==
    /\ lastTerrain = NoCall
    /\ lastScale = NoCall
    /\ pendingOverlays = <<>>
    /\ lastRender = NoCall
    /\ baseTiles \in registries
    /\ lastTile = NoCall
    /\ lastDiff = NoCall

\* after start(): the first worker is ready, nobody is connected
ReloadInit ==
    /\ worker = 1
    /\ connectedSessions = {}
    /\ workerPlayers = {}
    /\ reloadPc = "idle"
    /\ reloadLog = <<>>

UiInit == BrightInit({1}) /\ CompInit /\ DrawInit({BASE_TILES}) /\ ReloadInit /\ AsyncInit

\* chunkCacheSize of the sessions' providers (GameSession.start)
SessionChunkCap == MaxChunkCap

\* TileProvider with any capacity of at least 1
Init == TileInit(1..MaxChunkCap) /\ PredInit /\ SessInit /\ UiInit
Next == GetTile \/ ClearCache \/ NewTileProvider \/ ClockTick
Spec == Init /\ [][Next]_vars

InitSession == TileInit({SessionChunkCap}) /\ PredInit /\ SessInit /\ UiInit

\* PredictionCache: learning from recorded movements
NextMoves == Enable \/ Disable \/ RecordMovement
SpecMoves == InitSession /\ [][NextMoves]_vars

\* PredictionCache: pre-rendering and lookup
NextPred == Enable \/ Disable \/ PreRenderPredictions \/ CheckPrediction \/ PredClockTick
SpecPred == InitSession /\ [][NextPred]_vars

\* GameSession with its WorkerManager
NextSession == StartSetup \/ StartFinish \/ TimerTick \/ WorkerResponse
                  \/ RequestTimeout \/ Destroy \/ Move \/ WorkerExit \/ WorkerReady
                  \/ TogglePlayerList
SpecSession == InitSession /\ [][NextSession]_vars

\* WorkerManager requests of one session; a timer armed by setTimeout fires
\* unless it is cleared, and only the response handler clears it
NextRequests == StartSetup \/ StartFinish \/ TimerTick \/ TogglePlayerList
                   \/ WorkerResponse \/ RequestTimeout \/ WorkerExit \/ WorkerReady
                   \/ Destroy
SpecRequests ==
    /\ InitSession
    /\ [][NextRequests]_vars
    /\ \A requestId \in 1..MaxRequests : WF_vars(RequestTimeoutOf(requestId))

\* GameSession: its timers, its screens and teardown
NextTimers == StartSetup \/ StartFinish \/ Destroy \/ Move \/ MoveTimerFire \/ Zoom
                 \/ OpenScreen \/ ScreenCancel \/ ScreenConfirm \/ ScreenSaved
SpecTimers == InitSession /\ [][NextTimers]_vars

\* quantizeBrightness on every brightness asked for
NextQuantize == QuantizeBrightness
SpecQuantize == InitSession /\ [][NextQuantize]_vars

\* BrightnessVariantCache with any capacity of at least 1
InitVariants == TileInit({SessionChunkCap}) /\ PredInit /\ SessInit
                   /\ BrightInit(1..MaxBrightSize) /\ CompInit
                   /\ DrawInit({BASE_TILES}) /\ ReloadInit /\ AsyncInit
NextVariants == Get \/ Pregenerate \/ ClearVariants
SpecVariants == InitVariants /\ [][NextVariants]_vars

\* a ComponentManager and the components handed to it
NextComponents == AddComponent \/ RemoveComponent \/ PushFocus \/ PopFocus
                     \/ RemoveFocus \/ HandleInput
SpecComponents == InitSession /\ [][NextComponents]_vars

\* getTileIdFromTerrain on every pair of samples
NextTerrain == ClassifyTerrain
SpecTerrain == InitSession /\ [][NextTerrain]_vars

\* scaleFrame on grids of every small size
NextScale == ScaleFrame
SpecScale == InitSession /\ [][NextScale]_vars

\* ViewportRenderer: a frame of any world, or two frames one after the other
\* the tile objects of getTile, over registries with and without the tiles
InitTileObjects == TileInit({SessionChunkCap}) /\ PredInit /\ SessInit
                   /\ BrightInit({1}) /\ CompInit /\ DrawInit(Registries)
                   /\ ReloadInit /\ AsyncInit
NextTileObjects == GetTileObject \/ ClearCache
SpecTileObjects == InitTileObjects /\ [][NextTileObjects]_vars

NextReload == HotReload \/ SpawnFresh \/ SpawnReady \/ SpawnFails
              \/ RecoveryReady \/ RecoveryFails \/ PlayerConnect
              \/ PlayerDisconnect
SpecReload == InitSession /\ [][NextReload]_vars

NextDiff == EncodeFrame
SpecDiff == InitSession /\ [][NextDiff]_vars

NextRender == RenderEarlier \/ RenderNext \/ RenderPlayers \/ RenderGround
SpecRender == InitSession /\ [][NextRender]_vars

\* the focus stack alone: pushFocus, popFocus and removeFocus in any order
NextFocus == PushFocus \/ PopFocus \/ RemoveFocus
SpecFocus == InitSession /\ [][NextFocus]_vars

\* the requests of one session, with answers the worker sends unasked
NextSettle == StartSetup \/ StartFinish \/ TimerTick \/ TogglePlayerList
                 \/ WorkerResponse \/ StrayResponse \/ RequestTimeout \/ Move
SpecSettle == InitSession /\ [][NextSettle]_vars

\* a session whose user opens and closes the player list
NextPlayerList == StartSetup \/ StartFinish \/ PressTogglePlayers \/ PlayersAnswer
                     \/ PressEscape \/ RequestTimeout \/ WorkerExit \/ WorkerReady
                     \/ Move \/ MoveTimerFire
SpecPlayerList == InitSession /\ [][NextPlayerList]_vars

\* a running session whose ticks and sprite reload events load sprites
NextSprites == StartSetup \/ StartFinish \/ TickSprites \/ LoadFinishes
                  \/ SpriteReload \/ SpriteReloadFinishes
SpecSprites == InitSession /\ [][NextSprites]_vars

\* the worker processes of one WorkerManager
NextWorkers == ReloadKill \/ ReloadSpawn \/ ReloadSpawnTimesOut \/ ProcessReady
                  \/ ProcessCrashes \/ ProcessExit \/ RestartTimerFires
SpecWorkers == InitSession /\ [][NextWorkers]_vars

\* a session that serves predictions while the scene changes
NextServe == Enable \/ RenderAndPredict \/ SceneChanges \/ ServePrediction
SpecServe == InitSession /\ [][NextServe]_vars

\* the brightness cache asked for variants of several grids
NextGrids == GetGrid \/ PregenerateGrid
SpecGrids == InitVariants /\ [][NextGrids]_vars

\* one BuildingScreen from run() on
NextScreen == EditPrompt \/ StartGeneration \/ SpinnerFires \/ GenerationProgress
                 \/ GenerationEnds \/ Retry \/ LeaveScreen
SpecScreen == InitSession /\ [][NextScreen]_vars

(***************************************************************************)
(* Properties                                                              *)
(***************************************************************************)
PositionIn(order, key) == CHOOSE i \in 1..Len(order) : order[i] = key

\* C1: whenever getTile has returned, the chunk cache holds at most maxChunks
\* chunks, and an insertion that goes over capacity evicts and still returns
\* a tile
C1_CacheWithinCapacity ==
    /\ Len(chunkCache) <= maxChunks
    /\ (lastEvict.op = "insert" /\ lastEvict.over)
          => (lastEvict.evicted > 0 /\ lastGet.op = "getTile")

\* an insertion into a full cache has just evicted one chunk
C1_Witness ==
    /\ lastEvict.op = "insert"
    /\ lastEvict.over
    /\ lastEvict.evicted = 1
    /\ Len(chunkCache) = maxChunks

\* C2: an eviction removes the least recently accessed chunks: no chunk that
\* getChunk evicts was accessed after the last access of a chunk it keeps
C2_EvictsLeastRecentlyAccessed ==
    [][lastGet'.op = "getTile" =>
          \A a \in CacheKeys(chunkCache) \ CacheKeys(chunkCache') :
              \A b \in CacheKeys(chunkCache) \cap CacheKeys(chunkCache') :
                  PositionIn(recency, a) < PositionIn(recency, b)]_vars

\* C3: getTile(x, y) returns the tile id and rotation that an earlier call for
\* the same (x, y) returned, whatever happened in between and whichever
\* provider instance answers
C3_GetTileDeterministic ==
    (probe.op = "getTile" /\ lastGet.op = "getTile" /\ lastGet.probed)
        => lastGet.result = probe.result

\* a later call for the probed tile regenerated its chunk in a cache that is
\* full of other chunks
C3_Witness ==
    /\ probe.op = "getTile"
    /\ lastGet.op = "getTile"
    /\ lastGet.probed
    /\ ~lastGet.remembered
    /\ lastEvict.op = "insert"
    /\ lastEvict.evicted > 0

\* C4: the three weights always sum to 1, turn being 1 - continue - stop
C4_WeightsSumToOne ==
    /\ continueProbability + stopProbability + turnProbability = ProbScale
    /\ turnProbability = ProbScale - continueProbability - stopProbability

\* a recorded movement has moved the weights off their defaults
C4_Witness ==
    /\ lastPred.op = "recordMovement"
    /\ lastPred.stored
    /\ Len(movementHistory) = maxHistory
    /\ continueProbability # DefaultContinue
    /\ stopProbability # DefaultStop

PredictionMatches(e, x, y, dir) ==
    e.playerX = x /\ e.playerY = y /\ e.direction = dir

\* C5: checkPrediction returns a stored prediction only when it is younger
\* than 500 ms; with a matching entry of 500 ms or more it returns null and
\* records a miss
C5_OnlyFreshPredictionsHit ==
    lastPred.op = "check" =>
        /\ lastPred.stat = "hit" =>
              /\ lastPred.result \in predictions
              /\ PredictionMatches(lastPred.result, lastPred.x, lastPred.y,
                                   lastPred.direction)
              /\ lastPred.at - lastPred.result.timestamp < 500
        /\ (enabled /\ \E e \in predictions :
                /\ PredictionMatches(e, lastPred.x, lastPred.y, lastPred.direction)
                /\ lastPred.at - e.timestamp >= 500)
              => (lastPred.stat = "miss" /\ lastPred.result = NoCall)

\* a lookup whose key matches an entry that is exactly 500 ms old
C5_Witness ==
    /\ lastPred.op = "check"
    /\ lastPred.stat = "miss"
    /\ \E e \in predictions :
          /\ PredictionMatches(e, lastPred.x, lastPred.y, lastPred.direction)
          /\ lastPred.at - e.timestamp = 500

\* C6: after disable() there are no stored predictions and no recorded
\* movement history
C6_DisableClearsEverything ==
    lastPred.op = "disable" => (predictions = {} /\ movementHistory = <<>>)

\* the entry the claim describes for one hypothesis
ExpectedPrediction(e, kind, x, y, dir, t) ==
    /\ e.key = <<kind, x, y, dir>>
    /\ e.type = kind
    /\ PredictionMatches(e, x, y, dir)
    /\ e.timestamp = t

\* C7: after preRenderPredictions(x, y, d) on an enabled cache the map holds
\* exactly the four hypotheses for (x, y, d), all stamped with the time of the
\* call; on a disabled cache nothing is stored and nothing is rendered
C7_FourHypotheses ==
    lastPred.op = "preRender" =>
        IF lastPred.ran
        THEN LET x == lastPred.x
                 y == lastPred.y
                 d == lastPred.direction
                 t == lastPred.at
                 ahead == IF d = "up" THEN <<x, y - 1>>
                          ELSE IF d = "down" THEN <<x, y + 1>>
                          ELSE IF d = "left" THEN <<x - 1, y>>
                          ELSE <<x + 1, y>>
                 toLeft == IF d = "up" THEN "left"
                           ELSE IF d = "left" THEN "down"
                           ELSE IF d = "down" THEN "right"
                           ELSE "up"
                 toRight == IF d = "up" THEN "right"
                            ELSE IF d = "right" THEN "down"
                            ELSE IF d = "down" THEN "left"
                            ELSE "up"
             IN /\ Cardinality(predictions) = 4
                /\ \E e \in predictions :
                      ExpectedPrediction(e, "continue", ahead[1], ahead[2], d, t)
                /\ \E e \in predictions :
                      /\ ExpectedPrediction(e, "stop", x, y, d, t)
                      /\ e.output = <<>>
                      /\ e.bytesSize = 0
                /\ \E e \in predictions :
                      ExpectedPrediction(e, "turn_left", x, y, toLeft, t)
                /\ \E e \in predictions :
                      ExpectedPrediction(e, "turn_right", x, y, toRight, t)
        ELSE /\ predictions = lastPred.before
             /\ lastPred.renderCalls = 0

\* a pre-render that replaced the predictions of an earlier tick
C7_Witness ==
    /\ lastPred.op = "preRender"
    /\ lastPred.ran
    /\ lastPred.replaced
    /\ lastPred.at > 0

\* number of consecutive pairs of the history that are of class kind
PairsOfKind(kind) ==
    Cardinality({i \in 2..Len(movementHistory) :
                    ClassifyPair(movementHistory[i - 1], movementHistory[i]) = kind})

\* C8 as stated: an update sets continue to 0.3 * fraction + 0.7 * (the continue
\* weight before the update), and stop likewise
C8_AverageOverPreviousWeight ==
    [][(lastPred'.op = "recordMovement" /\ lastPred'.stored
            /\ Len(movementHistory') >= 3)
        => /\ 10 * continueProbability' * (Len(movementHistory') - 1) =
                3 * PairsOfKind("continue")' * ProbScale
                  + 7 * continueProbability * (Len(movementHistory') - 1)
           /\ 10 * stopProbability' * (Len(movementHistory') - 1) =
                3 * PairsOfKind("stop")' * ProbScale
                  + 7 * stopProbability * (Len(movementHistory') - 1)]_vars

\* C8 amended: an update sets continue to 0.3 * fraction + 0.7 * 0.45 and stop
\* to 0.3 * fraction + 0.7 * 0.30, the defaults and not the previous weights
C8_AverageOverDefaults ==
    [][(lastPred'.op = "recordMovement" /\ lastPred'.stored
            /\ Len(movementHistory') >= 3)
        => /\ 10 * continueProbability' * (Len(movementHistory') - 1) =
                3 * PairsOfKind("continue")' * ProbScale
                  + 7 * DefaultContinue * (Len(movementHistory') - 1)
           /\ 10 * stopProbability' * (Len(movementHistory') - 1) =
                3 * PairsOfKind("stop")' * ProbScale
                  + 7 * DefaultStop * (Len(movementHistory') - 1)]_vars

\* a second update, made from weights that already left the defaults
C8_Witness ==
    /\ lastPred.op = "recordMovement"
    /\ lastPred.stored
    /\ Len(movementHistory) = 4
    /\ continueProbability # DefaultContinue
    /\ PairsOfKind("continue") = 1

\* the class the claim gives the pair (prev, curr)
ClaimedClass(prev, curr) ==
    IF curr.x = prev.x /\ curr.y = prev.y THEN "stop"
    ELSE IF /\ prev.direction = curr.direction
            /\ \/ prev.direction = "up" /\ curr.x = prev.x /\ curr.y = prev.y - 1
               \/ prev.direction = "down" /\ curr.x = prev.x /\ curr.y = prev.y + 1
               \/ prev.direction = "left" /\ curr.x = prev.x - 1 /\ curr.y = prev.y
               \/ prev.direction = "right" /\ curr.x = prev.x + 1 /\ curr.y = prev.y
         THEN "continue"
    ELSE "turn"

ClaimedCount(kind) ==
    Cardinality({i \in 2..Len(movementHistory) :
                    ClaimedClass(movementHistory[i - 1], movementHistory[i]) = kind})

\* C9: updateProbabilities counts every consecutive pair in exactly one class:
\* stop for an unchanged position, continue for one tile ahead with the
\* direction unchanged, turn otherwise
C9_PairsClassified ==
    (lastPred.op = "recordMovement" /\ lastPred.stored /\ Len(movementHistory) >= 3)
        => /\ lastPred.counts.stops = ClaimedCount("stop")
           /\ lastPred.counts.continues = ClaimedCount("continue")
           /\ lastPred.counts.turns = ClaimedCount("turn")
           /\ lastPred.counts.stops + lastPred.counts.continues
                 + lastPred.counts.turns = Len(movementHistory) - 1

\* a history with a step ahead that changed direction, a change of direction
\* in place and a plain step ahead
C9_Witness ==
    /\ lastPred.op = "recordMovement"
    /\ lastPred.stored
    /\ Len(movementHistory) = 5
    /\ \E i \in 2..5 :
          /\ movementHistory[i - 1] = [x |-> 0, y |-> 0, direction |-> "down"]
          /\ movementHistory[i] = [x |-> 0, y |-> 1, direction |-> "left"]
    /\ \E i \in 2..5 :
          /\ movementHistory[i - 1] = [x |-> 0, y |-> 1, direction |-> "down"]
          /\ movementHistory[i] = [x |-> 0, y |-> 1, direction |-> "left"]
    /\ lastPred.counts.continues = 1

\* C10: once destroy() has been called no render tick writes to the stream
C10_NoTickWriteAfterDestroy ==
    ~(streamLog.op = "tick" /\ streamLog.wrote /\ streamLog.destroyed)

\* C11: once destroy() has run, the tick interval is not armed by a finishing
\* openAvatarScreen / openBuildingScreen or by a zoom change, and the move
\* timer is not armed
C11_NoTimerAfterDestroy ==
    destroyed => /\ ~(tickInterval /\ intervalSetBy \in {"screen", "zoom"})
                 /\ ~moveTimer

\* C12: every query sent to the worker eventually settles: a pending request,
\* and the tick() or togglePlayerList() awaiting it, does not stay pending
\* for ever, even when the worker never answers or has exited
C12_QueriesSettle ==
    \A requestId \in 1..MaxRequests :
        (requestId \in pendingRequests \cup ticks \cup toggles)
            ~> (requestId \notin pendingRequests \cup ticks \cup toggles)

\* a request is pending although the worker that received it has exited
C12_Witness ==
    /\ pendingRequests # {}
    /\ ~workerReady
    /\ workerInbox = {}

\* C13: when the visible-players query of a tick times out, that tick still
\* renders and writes a frame and no error escapes tick()
C13_TimeoutTickStillRenders ==
    (streamLog.op = "timeout" /\ streamLog.tick)
        => (streamLog.wrote /\ ~streamLog.escaped)

\* the thousandths of the level nearest to milli / 1000 when brightness and
\* levels are read as decimal numbers, the lower level on a tie
NearestDecimalLevel(milli) ==
    LET levels == {BRIGHTNESS_LEVELS[i] : i \in 1..Len(BRIGHTNESS_LEVELS)}
    IN CHOOSE l \in levels :
          \A k \in levels :
              \/ Abs(milli - l) < Abs(milli - k)
              \/ (Abs(milli - l) = Abs(milli - k) /\ l <= k)

\* C14: quantizeBrightness(b) returns the level nearest to b, the lower level
\* when b is equidistant from two levels (0.775, 0.925, 1.075 and 1.225 lie
\* halfway between two levels); 0.92 resolves to 0.85
C14_NearestLevelLowerOnTie ==
    lastQuantize.op = "quantize"
        => lastQuantize.result = NearestDecimalLevel(lastQuantize.input)

\* C14 (amended): quantizeBrightness(b) returns the level whose double is
\* nearest to the double b, the lower one when two are exactly as near; 0.92
\* resolves to 0.85; of the decimal midpoints only 1.075 is a tie of doubles,
\* 0.775, 0.925 and 1.225 resolve to 0.85, 1.0 and 1.3
C14_NearestDoubleLowerOnTie ==
    lastQuantize.op = "quantize" =>
        LET b      == ToDouble(lastQuantize.input)
            levels == {BRIGHTNESS_LEVELS[i] : i \in 1..Len(BRIGHTNESS_LEVELS)}
            mine   == Distance(b, ToDouble(lastQuantize.result))
        IN /\ lastQuantize.result \in levels
           /\ \A k \in levels :
                 LET other == Distance(b, ToDouble(k))
                 IN \/ mine[1] < other[1]
                    \/ (mine[1] = other[1] /\ mine[2] < other[2])
                    \/ (mine = other /\ lastQuantize.result <= k)
           /\ (lastQuantize.input = 920 => lastQuantize.result = 850)
           /\ (lastQuantize.input = 775 => lastQuantize.result = 850)
           /\ (lastQuantize.input = 925 => lastQuantize.result = 1000)
           /\ (lastQuantize.input = 1225 => lastQuantize.result = 1300)

\* 1.075 is as near to 1.0 as to 1.15 and resolved to 1.0
C14_Witness ==
    /\ lastQuantize.op = "quantize"
    /\ lastQuantize.input = 1075
    /\ lastQuantize.result = 1000
    /\ Distance(ToDouble(1075), ToDouble(1000)) = Distance(ToDouble(1075), ToDouble(1150))

\* C15: after any sequence of get and pregenerate calls the brightness cache
\* stores at most maxSize variants
C15_VariantsWithinMaxSize == Cardinality(variants) <= maxSize

\* C16: the access list holds exactly the stored keys, each once, and a get
\* that evicts removes the least recently used entries: every entry it
\* removes was last used before every entry it keeps
C16_EvictsLeastRecentlyUsed ==
    /\ [](/\ {accessOrder[i] : i \in 1..Len(accessOrder)} = variants
          /\ Len(accessOrder) = Cardinality(variants))
    /\ [][lastVariant'.op = "get" =>
            \A gone \in variants \ variants' :
                \A kept \in variants \cap variants' :
                    PositionIn(useOrder, gone) < PositionIn(useOrder, kept)]_vars

\* a get on a full cache evicted one entry and kept another
C16_Witness ==
    /\ lastVariant.op = "get"
    /\ lastVariant.evicted = 1
    /\ Len(accessOrder) >= 2
    /\ maxSize >= 2


\* C17: when the component on top of the focus stack is modal, handleInput
\* calls the handleInput of that component and of no other, whether or not
\* the event comes back handled
C17_ModalTopAloneReceives ==
    (/\ lastCall.op = "handleInput"
     /\ lastCall.stack # <<>>
     /\ isModal(getFocusedComponent(lastCall.stack)))
        => lastCall.received = <<getFocusedComponent(lastCall.stack)>>

\* an event the modal on top did not handle, above a component that would
\* have handled it
C17_Witness ==
    /\ lastCall.op = "handleInput"
    /\ Len(lastCall.stack) >= 2
    /\ getFocusedComponent(lastCall.stack) = "dialog"
    /\ lastCall.stack[Len(lastCall.stack) - 1] = "help-modal"
    /\ ~lastCall.handled
    /\ lastCall.received = <<"dialog">>

\* C18: at most one component is in state 'focused', and when the focus stack
\* is not empty and its top is not destroyed, a focused component is that top
C18_OneFocusedAtTop ==
    LET focused == {c \in ComponentIds : state[c] = "focused"}
    IN /\ Cardinality(focused) <= 1
       /\ (/\ focusStack # <<>>
           /\ state[getFocusedComponent(focusStack)] # "destroyed")
             => focused \subseteq {getFocusedComponent(focusStack)}

\* removeComponent destroyed a component of the stack and the focus went to
\* the component left on top, above another one
C18_Witness ==
    /\ lastCall.op = "removeComponent"
    /\ lastCall.removed
    /\ Len(focusStack) >= 2
    /\ state[getFocusedComponent(focusStack)] = "focused"
    /\ state[focusStack[1]] = "mounted"
    /\ focusStack[1] # getFocusedComponent(focusStack)

\* C19: no pushFocus, popFocus or removeFocus (nor the focus and blur they
\* call) takes a component out of state 'destroyed'
C19_DestroyedIsFinal ==
    [][\A c \in ComponentIds :
          (/\ state[c] = "destroyed"
           /\ lastCall'.op \in {"pushFocus", "popFocus", "removeFocus",
                                "handleInput"})
             => state'[c] = "destroyed"]_vars


\* C20: after a tick has refreshed the visible players, the TileProvider's
\* players map holds no player other than the local one who is absent from
\* the refreshed list
C20_PlayersOutOfViewRemoved ==
    (streamLog.op = "tick" /\ streamLog.refreshed)
        => (players \ {LocalUser}) \subseteq UserIds(cachedVisiblePlayers)


\* the classes of the threshold table that apply to a pair of samples
TerrainClasses(elevation, moisture) ==
    (IF elevation < 30 THEN {"water"} ELSE {})
    \cup (IF 30 <= elevation /\ elevation < 35 THEN {"sand"} ELSE {})
    \cup (IF elevation > 75 THEN {"stone"} ELSE {})
    \cup (IF 35 <= elevation /\ elevation <= 75 /\ moisture < 35
          THEN {"dirt"} ELSE {})
    \cup (IF 35 <= elevation /\ elevation <= 75 /\ moisture >= 35
          THEN {"grass"} ELSE {})

\* C21: for every elevation and moisture exactly one class of the threshold
\* table applies and getTileIdFromTerrain returns it
C21_TerrainFollowsThresholds ==
    lastTerrain.op = "classify"
        => TerrainClasses(lastTerrain.elevation, lastTerrain.moisture)
              = {lastTerrain.result}

\* the boundary 0.75 is not stone: dry ground there is dirt
C21_Witness ==
    /\ lastTerrain.op = "classify"
    /\ lastTerrain.elevation = 75
    /\ lastTerrain.moisture = 34
    /\ lastTerrain.result = "dirt"


\* C28: scaleFrame on a grid that already has the target size returns that
\* grid, scaling a second time changes nothing, and the result has h rows of
\* w cells, each the source cell at the floor of the scaled position (null
\* where the source has no cell)
C28_ScalingIdempotent ==
    lastScale.op = "scale" =>
        LET frame == lastScale.frame
            w     == lastScale.w
            h     == lastScale.h
            once  == lastScale.once
        IN /\ (GridHeight(frame) = h /\ GridWidth(frame) = w) => once = frame
           /\ lastScale.twice = once
           /\ Len(once) = h
           /\ \A y \in 1..h :
                 /\ Len(once[y]) = w
                 /\ \A x \in 1..w :
                       once[y][x] = PixelAt(frame,
                                            ((y - 1) * GridHeight(frame)) \div h,
                                            ((x - 1) * GridWidth(frame)) \div w)

\* a 1 by 2 grid scaled up to 2 by 1: a real resampling, repeated
C28_Witness ==
    /\ lastScale.op = "scale"
    /\ GridHeight(lastScale.frame) = 1
    /\ GridWidth(lastScale.frame) = 2
    /\ lastScale.w = 1
    /\ lastScale.h = 2
    /\ lastScale.once = << <<"p00">>, <<"p00">> >>
    /\ lastScale.twice = lastScale.once


\* C24: the buffer renderToBuffer returns has heightTiles * tileRenderSize
\* rows of widthTiles * tileRenderSize cells, whatever the camera and
\* wherever the players are
C24_BufferKeepsItsSize ==
    lastRender.op = "render" =>
        LET view == lastRender.view
        IN /\ Len(lastRender.buffer) = view.heightTiles * view.tileRenderSize
           /\ \A y \in 1..Len(lastRender.buffer) :
                 Len(lastRender.buffer[y]) = view.widthTiles * view.tileRenderSize

\* the player's tile on the screen
ScreenTile(view, player) ==
    [x |-> player.x - view.cameraX, y |-> player.y - view.cameraY]

\* a player with a sprite just right of the viewport and a player without a
\* sprite left of it
C24_Witness ==
    /\ lastRender.op = "render"
    /\ Len(lastRender.world.players) = 2
    /\ LET view == lastRender.view
           a    == lastRender.world.players[1]
           b    == lastRender.world.players[2]
       IN /\ lastRender.world.sprites[a.userId] = "opaque"
          /\ ScreenTile(view, a).x = view.widthTiles
          /\ ScreenTile(view, a).y = 0
          /\ lastRender.world.sprites[b.userId] = "none"
          /\ ScreenTile(view, b).x < 0

\* C25: a render emits one name tag for every player of getPlayers() other
\* than the local one, above that player's tile, none for the local player,
\* and nothing of the render before
C25_OneNameTagPerOtherPlayer ==
    lastRender.op = "render" =>
        LET view   == lastRender.view
            list   == lastRender.world.players
            others == {i \in 1..Len(list) :
                          list[i].userId # lastRender.world.localId}
            tags   == lastRender.overlays
        IN /\ Len(tags) = Cardinality(others)
           /\ \A i \in others :
                 \E k \in 1..Len(tags) :
                    /\ tags[k].text = list[i].userId
                    /\ tags[k].pixelY < ScreenTile(view, list[i]).y
                                           * view.tileRenderSize
                    /\ tags[k].pixelX >= ScreenTile(view, list[i]).x
                                            * view.tileRenderSize
                    /\ tags[k].pixelX < (ScreenTile(view, list[i]).x + 1)
                                           * view.tileRenderSize

\* the players that leave an opaque pixel on the cell (row, column) of the
\* buffer, both counted from 0
Covering(row, column) ==
    LET view == lastRender.view
        list == lastRender.world.players
    IN {list[i].userId : i \in {j \in 1..Len(list) :
          /\ lastRender.world.sprites[list[j].userId] \in {"opaque", "none"}
          /\ ScreenTile(view, list[j]).x = column \div view.tileRenderSize
          /\ ScreenTile(view, list[j]).y = row \div view.tileRenderSize
          /\ ScreenTile(view, list[j]).x >= 0
          /\ ScreenTile(view, list[j]).y >= 0}}

\* the world Y of the player with that user id
YOf(userId) ==
    LET list == lastRender.world.players
    IN list[CHOOSE i \in 1..Len(list) : list[i].userId = userId].y

\* C27: the players are drawn in non-decreasing world Y, the ones without a
\* sprite among them as placeholders, and a cell that several players cover
\* is left with the pixel of the one drawn last, whose Y no other exceeds
C27_DrawnInYOrder ==
    lastRender.op = "render" =>
        LET drawn == lastRender.drawn
            list  == lastRender.world.players
        IN /\ \A i \in 1..(Len(drawn) - 1) : YOf(drawn[i]) <= YOf(drawn[i + 1])
           /\ \A i \in 1..Len(list) :
                 lastRender.world.sprites[list[i].userId] = "none"
                    => \E k \in 1..Len(drawn) : drawn[k] = list[i].userId
           /\ \A row \in 0..(Len(lastRender.buffer) - 1) :
                 \A column \in 0..(Len(lastRender.buffer[row + 1]) - 1) :
                    LET covering == Covering(row, column)
                    IN covering # {} =>
                          \E top \in covering :
                             /\ \A other \in covering :
                                   /\ YOf(other) <= YOf(top)
                                   /\ PositionIn(drawn, other)
                                         <= PositionIn(drawn, top)
                             /\ lastRender.buffer[row + 1][column + 1] =
                                   IF lastRender.world.sprites[top] = "none"
                                   THEN "placeholder" ELSE top

\* two players handed over with the greater Y first: the sort turns them
\* round, and the one without a sprite is drawn as a placeholder
C27_Witness ==
    /\ lastRender.op = "render"
    /\ Len(lastRender.world.players) = 2
    /\ LET a == lastRender.world.players[1]
           b == lastRender.world.players[2]
       IN /\ a.y > b.y
          /\ lastRender.drawn = <<b.userId, a.userId>>
          /\ lastRender.world.sprites[a.userId] = "none"
          /\ lastRender.world.sprites[b.userId] = "opaque"
          /\ ScreenTile(lastRender.view, a) = [x |-> 0, y |-> 0]
          /\ lastRender.buffer[1][1] = "placeholder"

\* C26: an animated tile is drawn at tick t with the frame of index
\* floor(t / 15) mod frameCount: the precomputed frame of that index when it
\* exists, the base animation frame of that index otherwise
C26_AnimationFrameByTick ==
    (/\ lastRender.op = "render"
     /\ ~lastRender.world.tile.isNull
     /\ lastRender.world.tile.animated
     /\ lastRender.world.tile.animationFrames.has
     /\ lastRender.world.players = <<>>)
        => LET tile  == lastRender.world.tile
               index == (lastRender.tick \div 15)
                           % Len(tile.animationFrames.list)
           IN lastRender.buffer[1][1] =
                 IF /\ tile.animationResolutions.has
                    /\ index < Len(tile.animationResolutions.list)
                 THEN ResolutionNames[index + 1]
                 ELSE FrameNames[index + 1]


\* C22: getTile leaves the registered tiles as they were; a tile it rotates
\* is a new object whose grid is the rotation of the registered grid, and
\* an animated tile is handed out unrotated
C22_BaseTilesNeverMutated ==
    (lastTile.op = "tile" /\ lastTile.tileId \in DOMAIN lastTile.before) =>
        LET baseTile == lastTile.before[lastTile.tileId]
        IN /\ baseTiles = lastTile.before
           /\ ~lastTile.tile.isNull
           /\ IF lastTile.rotation # 0 /\ ~baseTile.animated
              THEN /\ ~lastTile.tile.fromRegistry
                   /\ lastTile.tile.pixels # baseTile.pixels
                   /\ lastTile.tile.pixels =
                         rotateGrid(baseTile.pixels, lastTile.rotation)
              ELSE lastTile.tile.pixels = baseTile.pixels

\* a static tile at a position with a rotation, during a session that has
\* already rotated tiles
C22_Witness ==
    /\ lastTile.op = "tile"
    /\ lastTile.tileId \in DOMAIN lastTile.before
    /\ ~lastTile.before[lastTile.tileId].animated
    /\ lastTile.rotation # 0
    /\ Len(chunkCache) > 1

\* an animated tile at a position with a rotation
C22_WitnessAnimated ==
    /\ lastTile.op = "tile"
    /\ lastTile.tileId \in DOMAIN lastTile.before
    /\ lastTile.before[lastTile.tileId].animated
    /\ lastTile.rotation # 0

\* C29: for a tile id that is not registered getTile returns the void tile
\* when there is one and null otherwise
C29_UnregisteredGivesVoidOrNull ==
    (lastTile.op = "tile" /\ lastTile.tileId \notin DOMAIN lastTile.before) =>
        IF "void" \in DOMAIN lastTile.before
        THEN /\ ~lastTile.tile.isNull
             /\ lastTile.tile.id = "void"
             /\ lastTile.tile.pixels = lastTile.before["void"].pixels
        ELSE lastTile.tile.isNull

\* an unregistered tile id with the void tile registered
C29_Witness ==
    /\ lastTile.op = "tile"
    /\ lastTile.tileId \notin DOMAIN lastTile.before
    /\ "void" \in DOMAIN lastTile.before

\* an unregistered tile id with no void tile
C29_WitnessNull ==
    /\ lastTile.op = "tile"
    /\ lastTile.tileId \notin DOMAIN lastTile.before
    /\ "void" \notin DOMAIN lastTile.before
    /\ lastTile.tile.isNull


\* C23: a terminal showing the previous frame that is sent the encoder's
\* output shows the new frame; two identical frames give no cell to write,
\* two frames that differ in every cell give every cell
C23_DiffReachesNewFrame ==
    lastDiff.op = "diff" =>
        LET cells    == lastDiff.cells
            previous == lastDiff.previous
            count    == Len(cells) * Len(cells[1])
        IN /\ lastDiff.shown = cells
           /\ (previous.has /\ previous.grid = cells)
                 => lastDiff.output.writes = <<>>
           /\ (/\ previous.has
               /\ SameSize(cells, previous.grid)
               /\ \A y \in 1..Len(cells) : \A x \in 1..Len(cells[1]) :
                     cells[y][x] # previous.grid[y][x])
                 => Len(lastDiff.output.writes) = count

\* a frame that differs from the previous one in some cells and not in others
C23_Witness ==
    /\ lastDiff.op = "diff"
    /\ lastDiff.previous.has
    /\ ~lastDiff.output.full
    /\ Len(lastDiff.output.writes) = 2
    /\ Len(lastDiff.cells) * Len(lastDiff.cells[1]) = 4


\* C30: once hotReload() is over and the state is 'running' again, every
\* connected session has been registered with the worker then running, and
\* the subscribers were told 'reloading', then 'running'
C30_ReloadReRegistersSessions ==
    /\ (reloadPc = "idle" /\ reloadState = "running")
          => connectedSessions \subseteq workerPlayers
    /\ (reloadPc = "idle" /\ reloadLog # <<>>)
          => reloadLog = <<"reloading", "running">>
    /\ reloadPc \in {"delay", "spawning", "recovering"}
          => (reloadLog = <<"reloading">> /\ reloadState = "reloading")


\* how often a component is on the stack
TimesOn(stack, c) == Cardinality({i \in 1..Len(stack) : stack[i] = c})

\* C35: after a pushFocus, popFocus or removeFocus every component on the
\* focus stack is visible, and a component that popFocus or removeFocus took
\* off is hidden and no longer on the stack
C35_StackVisibleRemovedHidden ==
    [][/\ \A i \in 1..Len(focusStack') : isVisible'[focusStack'[i]]
       /\ \A c \in ComponentIds :
             TimesOn(focusStack', c) < TimesOn(focusStack, c)
                => (~isVisible'[c] /\ TimesOn(focusStack', c) = 0)]_vars


\* the requests whose caller is waiting for the promise
Awaited == ticks \cup toggles

\* C33: a request gets a fresh id, its caller is resumed in the step that
\* deletes its entry (the first response or the timeout) and in no other, a
\* request without an entry never gets one again, and a response to a request
\* that is not pending changes nothing
C33_SettledExactlyOnce ==
    [][/\ requestIdCounter' >= requestIdCounter
       /\ \A id \in pendingRequests' \ pendingRequests :
             id = requestIdCounter + 1 /\ requestIdCounter' = id
       /\ \A id \in 1..requestIdCounter :
             id \notin pendingRequests => id \notin pendingRequests'
       /\ \A id \in Awaited \ Awaited' :
             id \in pendingRequests /\ id \notin pendingRequests'
       /\ Awaited' \subseteq pendingRequests'
       /\ streamLog'.op = "response"
             => UNCHANGED <<cachedVisiblePlayers, lastQueryX, players>>]_vars

\* a timed-out request whose answer arrives afterwards, while a second
\* request is pending
C33_Witness ==
    /\ streamLog.op = "response"
    /\ requestIdCounter = 2
    /\ 1 \notin pendingRequests
    /\ 2 \in pendingRequests
    /\ 1 \notin workerInbox


\* C37: at most one visible-players query of the session's ticks is pending,
\* and the cached list is overwritten only by the answer to the query issued
\* last
C37_OneVisibleQueryInFlight ==
    [][/\ Cardinality(ticks') <= 1
       /\ \A id \in ticks \ ticks' :
             cachedVisiblePlayers' # cachedVisiblePlayers
                => id = requestIdCounter]_vars


\* C36: while the tick interval is armed its period is currentTickMs and,
\* after a zoom key, the target of the zoom level; the target does not
\* decrease as the zoom level increases
C36_PeriodFollowsZoom ==
    /\ tickInterval =>
          /\ tickPeriod = currentTickMs
          /\ streamLog.op = "zoom"
                => tickPeriod = getTargetTickMs(streamLog.zoom)
    /\ \A low \in ZoomLevels, high \in ZoomLevels :
          low <= high => getTargetTickMs(low) <= getTargetTickMs(high)


\* C34: the player list modal is on the focus stack at most once, and a
\* close request leaves it hidden, off the stack and the input mode 'game'
C34_PlayerListOnStackOnce ==
    /\ TimesOn(focusStack, PlayerList) <= 1
    /\ (/\ lastCall.op = "handleInput"
        /\ getFocusedComponent(lastCall.stack) = PlayerList)
          => /\ ~isVisible[PlayerList]
             /\ TimesOn(focusStack, PlayerList) = 0
             /\ getInputMode(focusStack) = "game"


C32_NewerWorkerKept ==
    [][(/\ workerPid # 0
        /\ processes[workerPid] = "ready"
        /\ workerReady
        /\ processes'[workerPid] = "ready")
          => (workerReady' /\ workerPid' = workerPid)]_vars


\* C38: a served hit leaves the terminal as rendering the looked-up state
\* from the scene of that moment and sending its diff would
C38_HitEqualsNormal ==
    lastServe.op = "hit" => shownFrame = lastServe.normal


\* C39: get returns the brightness variant of the grid it was passed: the
\* opaque pixels scaled by the quantized brightness, rounded and clamped, the
\* transparent ones transparent
C39_VariantOfPassedGrid ==
    lastGrid.op = "get" =>
        LET grid == lastGrid.grid
        IN /\ Len(lastGrid.result) = Len(grid)
           /\ \A y \in 1..Len(grid) : \A x \in 1..Len(grid[y]) :
                 lastGrid.result[y][x] =
                    IF grid[y][x] = <<>> THEN <<>>
                    ELSE [c \in 1..3 |->
                            clamp255((grid[y][x][c] * lastGrid.level + 500)
                                        \div 1000)]


\* C40: after cleanup() the spinner's interval is not armed and nothing is
\* written to the stream; the interval is armed only in the state 'generating'
C40_QuietAfterCleanup ==
    /\ screenDestroyed => ~spinnerInterval
    /\ lastWrite.by # "cleanup" => ~lastWrite.destroyed
    /\ spinnerInterval => screenState = "generating"

====
